---- MODULE Spec2Model ----
(***************************************************************************)
(* HikerLink offline-first messaging core: the local SQLite message store  *)
(* (DatabaseService), the cloud sweep (FirebaseService.syncMessagesToCloud) *)
(* and the send / receive handlers of MessagingService.                    *)
(*                                                                         *)
(* The program is single threaded JavaScript: a handler runs without       *)
(* interruption up to its next await, so every action below is the code    *)
(* between two awaits of one handler.                                      *)
(***************************************************************************)
EXTENDS Integers, Sequences, FiniteSets, TLC

\* ------------------------------------------------------------------ bounds
MaxMsgs == 2            \* message identifiers 1..MaxMsgs
MaxSweeps == 2          \* syncMessagesToCloud invocations in flight at once
MaxTime == 2            \* clock values 1..MaxTime
MaxPending == 2         \* setConfig calls the provider has not answered yet
MaxMounts == 2          \* times the app component is mounted in one process

\* ------------------------------------------------------- program constants
DefaultSyncLimit == 50      \* getMessagesNeedingSync(limit = 50)
PendingCountLimit == 999    \* getMessagesNeedingSync(999)
DefaultViewLimit == 50      \* getMessages(peerId, limit = 50)
SosCountdownSeconds == 5    \* this.sosCountdown = 5
ActivityThreshold == 75     \* if (event.confidence >= 75)
DefaultUpdateInterval == 60000  \* this.locationUpdateInterval = 60000
DefaultMinDisplacement == 10    \* this.minDisplacement = 10

MsgIds == 1..MaxMsgs
SweepIds == 1..MaxSweeps
Times == 1..MaxTime
Peers == {"p1"}
NoMsg == [absent |-> TRUE]
NoId == 0

\* MESSAGE_TYPES of bridgefyService.js
MESSAGE_TYPES == [TEXT |-> "text", LOCATION |-> "location", SOS |-> "sos", STATUS |-> "status"]

\* --------------------------------------------------------- message content
\* A content value is a JavaScript value: a string <<"str", s>>, a number
\* <<"num", s>> or an object <<"obj", s>>, s being its JSON text.
TextContents == {<<"str", "hello">>}
ReplyContents == {<<"str", "42">>, <<"str", "on my way">>}
LocationContent == <<"obj", "{lat,lon}">>
SosContent == <<"obj", "{lat,lon,message}">>

\* JSON.stringify of a value : its JSON text (a string is quoted).
JsonStringify(c) == IF c[1] = "str" THEN "'" \o c[2] \o "'" ELSE c[2]

\* saveMessage: a string content is stored as it is, anything else as JSON.
ContentStr(c) == IF c[1] = "str" THEN c[2] ELSE JsonStringify(c)

\* JSON.parse of a stored text; <<"err">> stands for the SyntaxError thrown.
JsonParse(s) ==
  CASE s = "42" -> <<"num", "42">>
    [] s = "{lat,lon}" -> <<"obj", "{lat,lon}">>
    [] s = "{lat,lon,message}" -> <<"obj", "{lat,lon,message}">>
    [] OTHER -> <<"err">>

\* getMessagesNeedingSync: content is parsed, and kept a string when the
\* text is not valid JSON.
ParseContent(s) == IF JsonParse(s) = <<"err">> THEN <<"str", s>> ELSE JsonParse(s)

VARIABLES
  db,             \* DatabaseService calls in flight and the result of the last one
  peers,          \* peers table and the peer maps of the transport
  loc,            \* BackgroundLocationService sampling and location sync
  coord,          \* FirebaseService / MessagingService subscriptions and timers
  store,          \* messages table: identifier -> row, or NoMsg
  initialized,    \* MessagingService.initialized
  fbInitialized,  \* FirebaseService.initialized
  signedIn,       \* FirebaseService.user / userId is set
  onlineStatus,   \* FirebaseService.onlineStatus
  isOnline,       \* MessagingService.isOnline
  navOnline,      \* navigator.onLine
  now,            \* the clock (Date) at the last send
  sweep,          \* the syncMessagesToCloud invocations in flight
  sender,         \* the send handler in flight (sendTextMessage, ...)
  receiver,       \* the _handleBridgefyMessage call in flight
  cloudSaved,     \* history: the identifiers a cloud saveMessage call succeeded for
  everSynced,     \* history: the identifiers whose sync status has been 'synced'
  chat,           \* Firestore chats/{chatId}/messages: document id -> document, or NoMsg
  viewer,         \* the getMessages call in flight, and the list it returned last
  sos,            \* SOSService: the countdown and the sendSOS call in flight
  track           \* BackgroundLocationService: the tracking mode controller

\* The variables of the message store, the sweep and the send / receive handlers.
msgVars == <<store, initialized, fbInitialized, signedIn, onlineStatus, isOnline,
             navOnline, now, sweep, sender, receiver, cloudSaved, everSynced>>

\* The variables the sweep and the send / receive handlers do not touch.
extVars == <<db, peers, loc>>
svcVars == <<sos, track, extVars>>
auxVars == <<chat, viewer, svcVars>>

vars == <<msgVars, coord, auxVars>>

\* ============================================================ local store
\* DatabaseService over the messages table (id is the PRIMARY KEY).

Min(a, b) == IF a <= b THEN a ELSE b
Range(f) == {f[i] : i \in DOMAIN f}

\* saveMessage, first statement: INSERT OR REPLACE of the row of
\* message.messageId in `messages`; the row is always written with sync_status
\* 'pending' and needs_sync = needsSync.  content_row tells whether
\* `message_contents` holds a row for the identifier: this statement leaves
\* that table as it is.
saveMessageRow(st, message, needsSync) ==
  [st EXCEPT ![message.messageId] =
     [peer_id |-> message.peerId,
      type |-> message.type,
      content |-> ContentStr(message.content),
      timestamp |-> message.timestamp,
      is_emergency |-> (message.isEmergency \/ message.type = MESSAGE_TYPES.SOS),
      is_delivered |-> FALSE,
      needs_sync |-> needsSync,
      sync_status |-> "pending",
      content_row |-> (st[message.messageId] # NoMsg /\ st[message.messageId].content_row)]]

\* saveMessage, second statement: INSERT OR REPLACE INTO message_contents for
\* the types location, sos and text; no content row is written for another type.
HasContentTable(type) ==
  type \in {MESSAGE_TYPES.LOCATION, MESSAGE_TYPES.SOS, MESSAGE_TYPES.TEXT}

\* saveMessage when both statements succeed.
saveMessage(st, message, needsSync) ==
  IF HasContentTable(message.type)
  THEN [saveMessageRow(st, message, needsSync) EXCEPT ![message.messageId].content_row = TRUE]
  ELSE saveMessageRow(st, message, needsSync)

\* The content of a location or sos message is parsed when it is a string
\* (JSON.parse(message.content)), which throws when it is not JSON.
ContentParses(message) ==
  \/ message.type \notin {MESSAGE_TYPES.LOCATION, MESSAGE_TYPES.SOS}
  \/ message.content[1] # "str"
  \/ JsonParse(message.content[2]) # <<"err">>

\* How a call of saveMessage ends: "ok"; "rowFailed", the first statement
\* throws; "contentFailed", the content is not parsable or the second
\* statement throws.  Unparsable content leaves no other outcome than a throw.
SaveOutcomes(message) ==
  {"rowFailed"}
    \cup (IF HasContentTable(message.type) THEN {"contentFailed"} ELSE {})
    \cup (IF ContentParses(message) THEN {"ok"} ELSE {})

\* The store a call of saveMessage leaves; there is no transaction around
\* the two statements and nothing is undone when the second one fails.
SaveResult(st, message, needsSync, outcome) ==
  CASE outcome = "ok" -> saveMessage(st, message, needsSync)
    [] outcome = "rowFailed" -> st
    [] outcome = "contentFailed" -> saveMessageRow(st, message, needsSync)

\* markMessageDelivered: UPDATE ... SET is_delivered = 1 WHERE id = ?
markMessageDelivered(st, messageId) ==
  IF st[messageId] = NoMsg THEN st
  ELSE [st EXCEPT ![messageId].is_delivered = TRUE]

\* updateMessageSyncStatus: UPDATE ... SET sync_status = ? WHERE id = ?
updateMessageSyncStatus(st, messageId, status) ==
  IF st[messageId] = NoMsg THEN st
  ELSE [st EXCEPT ![messageId].sync_status = status]

\* A markMessageForSync that writes the flags of every row.
markEveryMessageForSync(st, messageId, needsSync) ==
  [id \in MsgIds |->
     IF st[id] = NoMsg THEN st[id]
     ELSE [st[id] EXCEPT !.needs_sync = needsSync,
                         !.sync_status = IF needsSync THEN "pending" ELSE "synced"]]

\* markMessageForSync: UPDATE ... SET needs_sync = ?, sync_status = ? WHERE id = ?
markMessageForSync(st, messageId, needsSync) ==
  IF st[messageId] = NoMsg THEN st
  ELSE [st EXCEPT ![messageId].needs_sync = needsSync,
                  ![messageId].sync_status = IF needsSync THEN "pending" ELSE "synced"]

\* A query that selects on the sync status alone.
PendingStatusIds(st) ==
  {id \in MsgIds : st[id] # NoMsg /\ st[id].sync_status = "pending"}

\* WHERE m.needs_sync = 1 AND m.sync_status = 'pending'
NeedingSyncIds(st) ==
  {id \in MsgIds : st[id] # NoMsg /\ st[id].needs_sync /\ st[id].sync_status = "pending"}

\* ORDER BY m.timestamp ASC
OrderedByTimestamp(q, st) ==
  \A i, j \in DOMAIN q : i < j => st[q[i]].timestamp <= st[q[j]].timestamp

\* One row of the result of getMessagesNeedingSync, content parsed.
SyncRow(st, id) ==
  [id |-> id,
   peer_id |-> st[id].peer_id,
   type |-> st[id].type,
   content |-> ParseContent(st[id].content),
   timestamp |-> st[id].timestamp,
   is_emergency |-> st[id].is_emergency]

\* getMessagesNeedingSync(limit): the rows that need sync, ORDER BY timestamp
\* ASC LIMIT limit.  SQL leaves the order of rows of equal timestamp open, so
\* this is the set of the results the query may give.
getMessagesNeedingSync(st, limit) ==
  LET N == NeedingSyncIds(st)
      n == Min(limit, Cardinality(N))
      picks == {q \in [1..n -> N] :
                  /\ \A i, j \in 1..n : i # j => q[i] # q[j]
                  /\ OrderedByTimestamp(q, st)
                  /\ \A id \in N \ Range(q) :
                       \A i \in 1..n : st[q[i]].timestamp <= st[id].timestamp}
  IN {[i \in 1..n |-> SyncRow(st, q[i])] : q \in picks}

\* MessagingService.getPendingMessageCount
getPendingMessageCount(st) ==
  IF ~initialized THEN 0
  ELSE Min(PendingCountLimit, Cardinality(NeedingSyncIds(st)))

\* ============================================================ cloud store
\* FirebaseService.saveMessage throws 'Not authenticated' unless the service
\* is initialized and a user is signed in; past that check the Firestore
\* writes succeed or throw (ok is the outcome of the writes).
CloudSaveSucceeds(ok) == fbInitialized /\ signedIn /\ ok

\* One cloud saveMessage call that succeeded for local message id: every
\* call creates a new document (doc(messagesRef)).
CloudRecord(id) == cloudSaved' = cloudSaved \cup {id}

\* ================================================================== sweep
\* FirebaseService.syncMessagesToCloud.  sweep[s] is one invocation:
\*   pc      where it is suspended ("idle": slot s holds no invocation)
\*   queue   the rows of `messages` still to process, the head being current
\*   late    history: it was invoked while another invocation was in its loop
IdleSweep == [pc |-> "idle", queue |-> <<>>, late |-> FALSE]

LoopPcs == {"mark", "save", "markForSync", "markSynced", "markFailed"}
InLoop(s) == sweep[s].pc \in LoopPcs

\* The slot a new invocation of syncMessagesToCloud takes, among the slots S.
HasFreeSlot(S) == \E s \in S : sweep[s].pc = "idle"
FreeSlot(S) == CHOOSE s \in S :
                 sweep[s].pc = "idle" /\ \A t \in S : t < s => sweep[t].pc # "idle"

\* syncMessagesToCloud up to its first await (getMessagesNeedingSync), with
\* the value fbOnline of onlineStatus at the call.  The invocation takes a
\* free slot of S (at most Cardinality(S) invocations are in flight).
SyncMessagesToCloud(S, fbOnline) ==
  IF fbInitialized /\ signedIn /\ fbOnline
  THEN /\ HasFreeSlot(S)
       /\ sweep' = [sweep EXCEPT ![FreeSlot(S)] =
                      [IdleSweep EXCEPT !.pc = "fetch",
                                        !.late = \E t \in SweepIds : InLoop(t)]]
  ELSE UNCHANGED sweep

\* MessagingService.syncMessages with the value online of isOnline.
SyncMessages(S, online, fbOnline) ==
  IF initialized /\ online /\ signedIn
  THEN SyncMessagesToCloud(S, fbOnline)
  ELSE UNCHANGED sweep

\* The loop moves on to the next message, or the invocation returns.
NextMessage(w) ==
  IF Len(w.queue) > 1 THEN [w EXCEPT !.queue = Tail(@), !.pc = "mark"]
  ELSE IdleSweep

\* The message of the iteration invocation s is in.
Current(s) == Head(sweep[s].queue)

\* const messages = await databaseService.getMessagesNeedingSync()
SweepFetch(s) ==
  /\ sweep[s].pc = "fetch"
  /\ \E q \in getMessagesNeedingSync(store, DefaultSyncLimit) :
       sweep' = [sweep EXCEPT ![s] =
                   IF Len(q) = 0 THEN IdleSweep
                   ELSE [@ EXCEPT !.queue = q, !.pc = "mark"]]
  /\ UNCHANGED <<store, initialized, fbInitialized, signedIn, onlineStatus, isOnline,
                 navOnline, now, sender, receiver, cloudSaved, everSynced>>
  /\ UNCHANGED <<coord, auxVars>>

\* await databaseService.updateMessageSyncStatus(message.id, 'syncing')
SweepMarkSyncing(s) ==
  /\ sweep[s].pc = "mark"
  /\ store' = updateMessageSyncStatus(store, Current(s).id, "syncing")
  /\ sweep' = [sweep EXCEPT ![s].pc = "save"]
  /\ UNCHANGED <<initialized, fbInitialized, signedIn, onlineStatus, isOnline,
                 navOnline, now, sender, receiver, cloudSaved, everSynced>>
  /\ UNCHANGED <<coord, auxVars>>

\* await this.saveMessage(cloudMessage): it returns, or throws into the catch.
SweepSave(s) ==
  /\ sweep[s].pc = "save"
  /\ \E ok \in BOOLEAN :
       IF CloudSaveSucceeds(ok)
       THEN /\ CloudRecord(Current(s).id)
            /\ sweep' = [sweep EXCEPT ![s].pc = "markForSync"]
       ELSE /\ sweep' = [sweep EXCEPT ![s].pc = "markFailed"]
            /\ UNCHANGED cloudSaved
  /\ UNCHANGED <<store, initialized, fbInitialized, signedIn, onlineStatus, isOnline,
                 navOnline, now, sender, receiver, everSynced>>
  /\ UNCHANGED <<coord, auxVars>>

\* The identifiers whose row has sync status 'synced'.
SyncedIds(st) == {id \in MsgIds : st[id] # NoMsg /\ st[id].sync_status = "synced"}

\* await databaseService.markMessageForSync(message.id, false)
SweepMarkForSync(s) ==
  /\ sweep[s].pc = "markForSync"
  /\ store' = markMessageForSync(store, Current(s).id, FALSE)
  /\ sweep' = [sweep EXCEPT ![s].pc = "markSynced"]
  /\ everSynced' = everSynced \cup SyncedIds(store')
  /\ UNCHANGED <<initialized, fbInitialized, signedIn, onlineStatus, isOnline,
                 navOnline, now, sender, receiver, cloudSaved>>
  /\ UNCHANGED <<coord, auxVars>>

\* await databaseService.updateMessageSyncStatus(message.id, 'synced')
SweepMarkSynced(s) ==
  /\ sweep[s].pc = "markSynced"
  /\ store' = updateMessageSyncStatus(store, Current(s).id, "synced")
  /\ sweep' = [sweep EXCEPT ![s] = NextMessage(@)]
  /\ everSynced' = everSynced \cup SyncedIds(store')
  /\ UNCHANGED <<initialized, fbInitialized, signedIn, onlineStatus, isOnline,
                 navOnline, now, sender, receiver, cloudSaved>>
  /\ UNCHANGED <<coord, auxVars>>

\* catch: await databaseService.updateMessageSyncStatus(message.id, 'failed')
SweepMarkFailed(s) ==
  /\ sweep[s].pc = "markFailed"
  /\ store' = updateMessageSyncStatus(store, Current(s).id, "failed")
  /\ sweep' = [sweep EXCEPT ![s] = NextMessage(@)]
  /\ UNCHANGED <<initialized, fbInitialized, signedIn, onlineStatus, isOnline,
                 navOnline, now, sender, receiver, cloudSaved, everSynced>>
  /\ UNCHANGED <<coord, auxVars>>

\* setInterval of _setupNetworkObserver (30 s):
\*   if (this.onlineStatus && this.userId) await this.syncMessagesToCloud()
FirebaseSyncTimer(S) ==
  /\ fbInitialized /\ onlineStatus /\ signedIn
  /\ SyncMessagesToCloud(S, onlineStatus)
  /\ UNCHANGED <<store, initialized, fbInitialized, signedIn, onlineStatus, isOnline,
                 navOnline, now, sender, receiver, cloudSaved, everSynced>>
  /\ UNCHANGED <<coord, auxVars>>

\* setInterval of _setupNetworkMonitoring (60 s):
\*   if (this.isOnline) this.syncMessages()
\* A firing that starts no sweep changes nothing (a stuttering step).
MessagingSyncTimer(S) ==
  /\ initialized /\ isOnline
  /\ SyncMessages(S, isOnline, onlineStatus)
  /\ sweep' # sweep
  /\ UNCHANGED <<store, initialized, fbInitialized, signedIn, onlineStatus, isOnline,
                 navOnline, now, sender, receiver, cloudSaved, everSynced>>
  /\ UNCHANGED <<coord, auxVars>>

\* updateUserOnlineStatus(isOnline) up to its first await: the new value of
\* onlineStatus.
updateUserOnlineStatus(online) ==
  IF ~fbInitialized \/ ~signedIn THEN onlineStatus ELSE online

\* _handleNetworkStatusChange(online): the new value of onlineStatus.
HandledOnlineStatus(online) ==
  IF signedIn THEN updateUserOnlineStatus(online) ELSE onlineStatus

\* _checkNetworkStatus (every 30 s) and, when the status changed,
\* _handleNetworkStatusChange: the came-online trigger of the sweep.
CheckNetworkStatus(S) ==
  /\ initialized
  /\ isOnline # navOnline
  /\ isOnline' = navOnline
  /\ onlineStatus' = HandledOnlineStatus(navOnline)
  /\ IF navOnline
     THEN SyncMessages(S, TRUE, onlineStatus')
     ELSE UNCHANGED sweep
  /\ UNCHANGED <<store, initialized, fbInitialized, signedIn, navOnline, now,
                 sender, receiver, cloudSaved, everSynced>>
  /\ UNCHANGED <<coord, auxVars>>

\* The device gains or loses connectivity (navigator.onLine).
NetworkChange ==
  /\ navOnline' = ~navOnline
  /\ UNCHANGED <<store, initialized, fbInitialized, signedIn, onlineStatus, isOnline,
                 now, sweep, sender, receiver, cloudSaved, everSynced>>
  /\ UNCHANGED <<coord, auxVars>>

\* onAuthStateChanged callback: user is set or cleared; a user makes it call
\* updateUserOnlineStatus(true).
AuthStateChanged(user) ==
  /\ fbInitialized
  /\ signedIn # user
  /\ signedIn' = user
  /\ onlineStatus' = IF user THEN TRUE ELSE onlineStatus
  /\ UNCHANGED <<store, initialized, fbInitialized, isOnline, navOnline, now, sweep,
                 sender, receiver, cloudSaved, everSynced>>
  /\ UNCHANGED <<coord, auxVars>>

\* What cleanup and the timers work on: the auth state listener
\* (authUnsubscribe), the Firestore listeners (this.listeners, by listenerId),
\* and the number of intervals running: the sweep interval of
\* _setupNetworkObserver, the network check and the sync interval of
\* _setupNetworkMonitoring.
ListenerIds == {"chat_p1", "user_chats"}
InitCoord ==
  [authSubscribed |-> FALSE, listeners |-> {}, fbTimers |-> 0, netTimers |-> 0,
   msgTimers |-> 0]

\* firebaseService.initialize after `if (this.initialized) return true`:
\* onAuthStateChanged is subscribed, _setupNetworkObserver starts an interval.
firebaseInitialize(c) ==
  [c EXCEPT !.authSubscribed = TRUE, !.fbTimers = @ + 1]

\* _setupNetworkMonitoring: two setInterval calls.
setupNetworkMonitoring(c) ==
  [c EXCEPT !.netTimers = @ + 1, !.msgTimers = @ + 1]

\* The app component is mounted for the first time: firebaseService.initialize
\* when the config has an apiKey (fb), then MessagingService.initialize, whose
\* _setupNetworkMonitoring checks the network once; initialized is set last,
\* so the syncMessages() of that check returns 0.
Initialize(fb) ==
  /\ ~initialized
  /\ initialized' = TRUE
  /\ fbInitialized' = fb
  /\ isOnline' = navOnline
  /\ coord' = setupNetworkMonitoring(IF fb THEN firebaseInitialize(coord) ELSE coord)
  /\ UNCHANGED <<store, signedIn, onlineStatus, navOnline, now, sweep, sender,
                 receiver, cloudSaved, everSynced>>
  /\ UNCHANGED auxVars

\* listenToChatMessages / listenToUserChats: the listener with the same id is
\* removed first, the new unsubscribe function is kept under the id.
Listen(listenerId) ==
  /\ fbInitialized /\ signedIn
  /\ coord' = [coord EXCEPT !.listeners = @ \cup {listenerId}]
  /\ UNCHANGED <<msgVars, auxVars>>

\* The app component is unmounted: firebaseService.cleanup() unsubscribes the
\* auth listener and the Firestore listeners and resets initialized, user and
\* userId. No interval is cleared (the interval of _setupNetworkObserver is a
\* local const, those of _setupNetworkMonitoring are not kept at all).
FirebaseCleanup ==
  /\ initialized
  /\ fbInitialized
  /\ fbInitialized' = FALSE
  /\ signedIn' = FALSE
  /\ coord' = [coord EXCEPT !.authSubscribed = FALSE, !.listeners = {}]
  /\ UNCHANGED <<store, initialized, onlineStatus, isOnline, navOnline, now, sweep,
                 sender, receiver, cloudSaved, everSynced>>
  /\ UNCHANGED auxVars

\* The app component is mounted again in the same process:
\* firebaseService.initialize runs again, messagingService.initialize returns
\* at `if (this.initialized) return true`.
Remount ==
  /\ initialized
  /\ ~fbInitialized
  /\ coord.fbTimers >= 1
  /\ coord.fbTimers < MaxMounts
  /\ fbInitialized' = TRUE
  /\ coord' = firebaseInitialize(coord)
  /\ UNCHANGED <<store, initialized, signedIn, onlineStatus, isOnline, navOnline,
                 now, sweep, sender, receiver, cloudSaved, everSynced>>
  /\ UNCHANGED auxVars

\* ================================================================ sending
\* sender is the send handler in flight: sendTextMessage,
\* sendLocationMessage or sendSOSMessage.
\*   pc   "idle", "cloud" (before the Firebase leg), "peer" (before Bridgefy)
\*   op   "text", "location" or "sosBroadcast"
\*   id   message.messageId; NoId for sendSOSMessage, which creates no message
\*   result  how the last call ended: "threw", or the boolean it returned
\*           ("true", "false"); "none" before the first call has ended
IdleSender == [pc |-> "idle", op |-> "none", id |-> NoId, isEmergency |-> FALSE,
               firebaseSent |-> FALSE, result |-> "none"]

\* The call in flight ends by throwing error (the catch rethrows it).
Thrown == [IdleSender EXCEPT !.result = "threw"]

\* `msg_${Date.now()}_${random}`: an identifier no stored message has.
HasFreshId == \E id \in MsgIds : store[id] = NoMsg
FreshId == CHOOSE id \in MsgIds :
             store[id] = NoMsg /\ \A j \in MsgIds : j < id => store[j] # NoMsg

\* sendTextMessage up to the end of
\* `await databaseService.saveMessage(message, this.isOnline)`
SendTextMessage(peerId, text, t) ==
  /\ initialized /\ sender.pc = "idle" /\ HasFreshId
  /\ t >= now /\ now' = t
  /\ LET message == [messageId |-> FreshId, peerId |-> peerId,
                     type |-> MESSAGE_TYPES.TEXT, content |-> text,
                     timestamp |-> t, isEmergency |-> FALSE] IN
       \E outcome \in SaveOutcomes(message) :
         /\ store' = SaveResult(store, message, isOnline, outcome)
         /\ sender' = IF outcome = "ok"
                       THEN [pc |-> "cloud", op |-> "text", id |-> message.messageId,
                             isEmergency |-> FALSE, firebaseSent |-> FALSE,
                             result |-> "none"]
                       ELSE Thrown
  /\ UNCHANGED <<initialized, fbInitialized, signedIn, onlineStatus, isOnline,
                 navOnline, sweep, receiver, cloudSaved, everSynced>>
  /\ UNCHANGED <<coord, auxVars>>

\* sendLocationMessage up to the end of `await databaseService.saveMessage(...)`;
\* the location fetch succeeded (when it fails the call throws before any effect).
SendLocationMessage(peerId, isEmergency, t) ==
  /\ initialized /\ sender.pc = "idle" /\ HasFreshId
  /\ t >= now /\ now' = t
  /\ LET message == [messageId |-> FreshId, peerId |-> peerId,
                     type |-> IF isEmergency THEN MESSAGE_TYPES.SOS ELSE MESSAGE_TYPES.LOCATION,
                     content |-> IF isEmergency THEN SosContent ELSE LocationContent,
                     timestamp |-> t, isEmergency |-> isEmergency] IN
       \E outcome \in SaveOutcomes(message) :
         /\ store' = SaveResult(store, message, isOnline, outcome)
         /\ sender' = IF outcome = "ok"
                       THEN [pc |-> "cloud", op |-> "location", id |-> message.messageId,
                             isEmergency |-> isEmergency, firebaseSent |-> FALSE,
                             result |-> "none"]
                       ELSE Thrown
  /\ UNCHANGED <<initialized, fbInitialized, signedIn, onlineStatus, isOnline,
                 navOnline, sweep, receiver, cloudSaved, everSynced>>
  /\ UNCHANGED <<coord, auxVars>>

\* sendSOSMessage up to the Firebase leg: the location fetch succeeded; no
\* message object is created and nothing is written to the local store.
SendSOSMessage ==
  /\ initialized /\ sender.pc = "idle"
  /\ sender' = [pc |-> "cloud", op |-> "sosBroadcast", id |-> NoId,
                isEmergency |-> TRUE, firebaseSent |-> FALSE, result |-> "none"]
  /\ UNCHANGED <<store, initialized, fbInitialized, signedIn, onlineStatus, isOnline,
                 navOnline, now, sweep, receiver, cloudSaved, everSynced>>
  /\ UNCHANGED <<coord, auxVars>>

\* if (this.isOnline && firebaseService.isSignedIn()): the Firebase leg is tried.
CloudLegTried == isOnline /\ signedIn

\* The Firebase leg of the three send handlers, inside try / catch.
\* sendTextMessage and sendLocationMessage call firebaseService.saveMessage
\* (an emergency location then saveUserLocation too, ok2 its outcome);
\* sendSOSMessage calls saveUserLocation alone (ok its outcome).
SendCloud ==
  /\ sender.pc = "cloud"
  /\ IF CloudLegTried
     THEN \E ok, ok2 \in BOOLEAN :
            /\ (sender.op = "location" /\ sender.isEmergency /\ CloudSaveSucceeds(ok)) \/ ok2
            /\ IF sender.op # "sosBroadcast" /\ CloudSaveSucceeds(ok)
               THEN CloudRecord(sender.id)
               ELSE UNCHANGED cloudSaved
            /\ sender' = [sender EXCEPT !.pc = "peer",
                                        !.firebaseSent = CloudSaveSucceeds(ok) /\ ok2]
     ELSE /\ sender' = [sender EXCEPT !.pc = "peer"]
          /\ UNCHANGED cloudSaved
  /\ UNCHANGED <<store, initialized, fbInitialized, signedIn, onlineStatus, isOnline,
                 navOnline, now, sweep, receiver, everSynced>>
  /\ UNCHANGED <<coord, auxVars>>

\* The Bridgefy leg is tried: by sendTextMessage and sendLocationMessage when
\* (!firebaseSent || !this.isOnline), by sendSOSMessage always
\* (isOfflineMessagingEnabled keeps its initial value, true).
PeerLegTried == sender.op = "sosBroadcast" \/ ~sender.firebaseSent \/ ~isOnline

\* The Bridgefy leg (bridgefyService.sendMessage / sendSOS: bridgefySent is
\* what it returns, false when it throws), then
\* `return firebaseSent || bridgefySent`.
SendPeer ==
  /\ sender.pc = "peer"
  /\ \E bridgefySent \in BOOLEAN :
       /\ bridgefySent => PeerLegTried
       /\ sender' = [IdleSender EXCEPT !.result =
                       IF sender.firebaseSent \/ bridgefySent THEN "true" ELSE "false"]
  /\ UNCHANGED <<store, initialized, fbInitialized, signedIn, onlineStatus, isOnline,
                 navOnline, now, sweep, receiver, cloudSaved, everSynced>>
  /\ UNCHANGED <<coord, auxVars>>

\* ============================================================== receiving
\* The messages the peer transport may deliver (message.messageId is set by
\* the sending device, so a message may arrive twice under one identifier).
IncomingMessages ==
  {[messageId |-> id, peerId |-> p, type |-> MESSAGE_TYPES.TEXT, content |-> c,
    timestamp |-> t, isEmergency |-> FALSE] :
     id \in MsgIds, p \in Peers, c \in ReplyContents, t \in Times}

\* A location message whose content is a string that is not JSON.
MalformedMessages ==
  {[messageId |-> id, peerId |-> p, type |-> MESSAGE_TYPES.LOCATION,
    content |-> <<"str", "on my way">>, timestamp |-> t, isEmergency |-> FALSE] :
     id \in MsgIds, p \in Peers, t \in Times}

\* An SOS message a peer broadcasts.
EmergencyMessages ==
  {[messageId |-> id, peerId |-> p, type |-> MESSAGE_TYPES.SOS,
    content |-> SosContent, timestamp |-> t, isEmergency |-> TRUE] :
     id \in MsgIds, p \in Peers, t \in Times}

\* receiver is the _handleBridgefyMessage call in flight.
IdleReceiver == [pc |-> "idle", msg |-> NoMsg]

\* _handleBridgefyMessage up to the end of
\* `await databaseService.saveMessage(formattedMessage, this.isOnline)`;
\* when that throws the outer catch logs the error and the handler returns.
HandleBridgefyMessage(message) ==
  /\ initialized /\ receiver.pc = "idle"
  /\ \E outcome \in SaveOutcomes(message) :
       /\ store' = SaveResult(store, message, isOnline, outcome)
       /\ receiver' = IF outcome = "ok" THEN [pc |-> "cloud", msg |-> message]
                       ELSE IdleReceiver
  /\ UNCHANGED <<initialized, fbInitialized, signedIn, onlineStatus, isOnline,
                 navOnline, now, sweep, sender, cloudSaved, everSynced>>
  /\ UNCHANGED <<coord, auxVars>>

\* _handleBridgefyMessage, the rest:
\*   if (this.isOnline && firebaseService.isSignedIn()) {
\*     try { await firebaseService.saveMessage(...) } catch {} }
ReceiveCloud ==
  /\ receiver.pc = "cloud"
  /\ IF isOnline /\ signedIn
     THEN \E ok \in BOOLEAN :
            IF CloudSaveSucceeds(ok) THEN CloudRecord(receiver.msg.messageId)
            ELSE UNCHANGED cloudSaved
     ELSE UNCHANGED cloudSaved
  /\ receiver' = IdleReceiver
  /\ UNCHANGED <<store, initialized, fbInitialized, signedIn, onlineStatus, isOnline,
                 navOnline, now, sweep, sender, everSynced>>
  /\ UNCHANGED <<coord, auxVars>>

\* ============================================================ getMessages
\* MessagingService.getMessages(peerId, limit = 50) over the local store and
\* the Firestore chat with the peer.  An entry of the list it handles is
\*   a local row    : id is set, it has no messageId field (SELECT m.*)
\*   a cloud message: messageId is set (messageId: msg.id), it has no id field
\* NoId stands for the field that is not there (undefined).
LocalEntry(st, id) ==
  [id |-> id, messageId |-> NoId, content |-> ParseContent(st[id].content),
   timestamp |-> st[id].timestamp]

\* cloudMessages.map(msg => ({messageId: msg.id, ...}))
CloudEntry(id) ==
  [id |-> NoId, messageId |-> id, content |-> chat[id].content,
   timestamp |-> chat[id].timestamp]

\* The identifier of the message an entry stands for.
EntryId(e) == IF e.messageId # NoId THEN e.messageId ELSE e.id

\* ORDER BY timestamp DESC LIMIT n: the sequences of the n elements of the
\* set ids with the latest timestamps (ts[id]), latest first, rows that tie
\* in any order.
FirstInOrder(ids, n, ts) ==
  {q \in [1..n -> ids] :
     /\ \A i, j \in 1..n : i # j => q[i] # q[j]
     /\ \A i, j \in 1..n : i < j => ts[q[i]] >= ts[q[j]]
     /\ \A id \in ids \ Range(q) : \A i \in 1..n : ts[q[i]] >= ts[id]}

\* getMessagesByPeerId(peerId, limit): WHERE m.peer_id = ? ORDER BY
\* m.timestamp DESC LIMIT ?; the results the query may give.
getMessagesByPeerId(st, peerId, limit) ==
  LET ids == {id \in MsgIds : st[id] # NoMsg /\ st[id].peer_id = peerId}
      n == Min(limit, Cardinality(ids))
      ts == [id \in ids |-> st[id].timestamp]
  IN {[i \in 1..n |-> LocalEntry(st, q[i])] : q \in FirstInOrder(ids, n, ts)}

\* firebaseService.getChatMessages(peerId, limit): orderBy('timestamp',
\* 'desc'), limit(limit), then sorted by ascending timestamp; converted to
\* the local format by getMessages.
getChatMessages(limit) ==
  LET ids == {id \in MsgIds : chat[id] # NoMsg}
      n == Min(limit, Cardinality(ids))
      ts == [id \in ids |-> chat[id].timestamp]
      Reverse(q) == [i \in 1..n |-> q[n + 1 - i]]
  IN {[i \in 1..n |-> CloudEntry(Reverse(q)[i])] : q \in FirstInOrder(ids, n, ts)}

\* cloudMessages.forEach: a cloud message is pushed unless an entry of
\* allMessages has its messageId (localMsg.messageId === cloudMsg.messageId).
RECURSIVE MergeCloud(_, _)
MergeCloud(all, cloud) ==
  IF cloud = <<>> THEN all
  ELSE LET c == Head(cloud) IN
       IF \E i \in DOMAIN all : all[i].messageId = c.messageId
       THEN MergeCloud(all, Tail(cloud))
       ELSE MergeCloud(Append(all, c), Tail(cloud))

\* Array.prototype.sort((a, b) => timeA - timeB): a stable sort by timestamp.
RECURSIVE InsertByTime(_, _)
InsertByTime(sorted, e) ==
  IF sorted = <<>> THEN <<e>>
  ELSE IF sorted[Len(sorted)].timestamp <= e.timestamp THEN Append(sorted, e)
  ELSE Append(InsertByTime(SubSeq(sorted, 1, Len(sorted) - 1), e), sorted[Len(sorted)])

RECURSIVE SortByTime(_)
SortByTime(q) ==
  IF q = <<>> THEN <<>>
  ELSE InsertByTime(SortByTime(SubSeq(q, 1, Len(q) - 1)), q[Len(q)])

\* viewer is the getMessages call in flight:
\*   pc      "idle", "cloud" (after the local read), "save" (saving the cloud
\*           messages to the local store), "merge"
\*   local   localMessages
\*   cloud   cloudMessages, in the local format
\*   rest    the cloud messages the loop has still to save
\*   result  the list the last call returned
IdleViewer == [pc |-> "idle", local |-> <<>>, cloud |-> <<>>, rest |-> <<>>,
               result |-> <<>>]

\* getMessages up to the end of `await databaseService.getMessagesByPeerId(...)`
GetMessages(peerId) ==
  /\ initialized /\ viewer.pc = "idle"
  /\ \E local \in getMessagesByPeerId(store, peerId, DefaultViewLimit) :
       viewer' = [IdleViewer EXCEPT !.pc = "cloud", !.local = local]
  /\ UNCHANGED <<coord, msgVars, chat, svcVars>>

\* if (this.isOnline && firebaseService.isSignedIn()):
\*   cloudMessages = await firebaseService.getChatMessages(peerId, limit),
\* which throws into the catch (cloudMessages stays []) or returns. In
\* getChatMessages as written the parameter `limit` hides the imported
\* query function, so limit(limit) throws on every call (ok = FALSE); ok =
\* TRUE is a getChatMessages whose query is built.
GetMessagesCloud ==
  /\ viewer.pc = "cloud"
  /\ IF isOnline /\ signedIn
     THEN \E ok \in BOOLEAN :
            IF fbInitialized /\ ok
            THEN \E cloud \in getChatMessages(DefaultViewLimit) :
                   viewer' = [viewer EXCEPT !.cloud = cloud, !.rest = cloud,
                                !.pc = IF cloud = <<>> THEN "merge" ELSE "save"]
            ELSE viewer' = [viewer EXCEPT !.pc = "merge"]
     ELSE viewer' = [viewer EXCEPT !.pc = "merge"]
  /\ UNCHANGED <<coord, msgVars, chat, svcVars>>

\* for (const msg of cloudMessages)
\*   await databaseService.saveMessage({...msg, localUserId}, false)
\* When a save throws, the catch ends the loop and the merge follows.
GetMessagesSave(peerId) ==
  /\ viewer.pc = "save"
  /\ LET msg == Head(viewer.rest)
         message == [messageId |-> msg.messageId, peerId |-> peerId,
                     type |-> MESSAGE_TYPES.TEXT, content |-> msg.content,
                     timestamp |-> msg.timestamp, isEmergency |-> FALSE]
     IN \E outcome \in SaveOutcomes(message) :
          /\ store' = SaveResult(store, message, FALSE, outcome)
          /\ viewer' = IF outcome = "ok" /\ Len(viewer.rest) > 1
                        THEN [viewer EXCEPT !.rest = Tail(@)]
                        ELSE [viewer EXCEPT !.rest = <<>>, !.pc = "merge"]
  /\ UNCHANGED <<initialized, fbInitialized, signedIn, onlineStatus, isOnline,
                 navOnline, now, sweep, sender, receiver, cloudSaved, everSynced>>
  /\ UNCHANGED <<coord, chat, svcVars>>

\* The merge, the sort and the return.
GetMessagesMerge ==
  /\ viewer.pc = "merge"
  /\ viewer' = [IdleViewer EXCEPT
                  !.result = SortByTime(MergeCloud(viewer.local, viewer.cloud))]
  /\ UNCHANGED <<coord, msgVars, chat, svcVars>>

\* A message document is written to the chat (by the peer's device, or by a
\* cloud saveMessage of this account): doc(messagesRef) gives it a new id.
ChatDocWritten(id, content, t) ==
  /\ chat[id] = NoMsg /\ store[id] = NoMsg
  /\ chat' = [chat EXCEPT ![id] = [content |-> content, timestamp |-> t]]
  /\ UNCHANGED <<coord, msgVars, viewer, svcVars>>

\* ============================================================= SOSService
\* sos is the SOSService object and its sendSOS call in flight:
\*   interval    sosCountdownInterval is set (the countdown runs)
\*   countdown   sosCountdown
\*   alertOpen   the 'SOS Countdown Started' alert (Cancel / Send Now) is shown
\*   isSending   isSending
\*   pc          where sendSOS is suspended: "idle", "location" (its own
\*               location fetch), then inside messagingService.sendSOSMessage
\*               "msgLocation", "msgCloud", "msgPeer", then "cloud" (the cloud
\*               notification of sendSOS)
\*   firebaseSent, bridgefySent   the locals of sendSOSMessage
\*   outcome     the alert sendSOS showed last: "none", "sentCloud" ('... to
\*               nearby hikers and to the cloud.'), "sentPeers" ('... to nearby
\*               hikers.'), "failed" ('SOS Sending Failed'), "error" ('SOS Error')
\* and, as history of the send in flight or ended last,
\*   via         what called sendSOS: "countdown" (it reached zero) or "sendNow"
\*   cancelled   the countdown was stopped before zero and none started since
\*   peerTried   bridgefyService.sendSOS was called
\*   cloudTried  a cloud write was called
\*   cloudSent   a cloud write succeeded
\*   sosDocs     the documents the send has created in the 'sos' collection
\* and the resources the object has in use:
\*   timers      the intervals set by setInterval and not cleared
\*   sends       the calls of sendSOS that are past the isSending test and
\*               have not reached finally
InitSos ==
  [interval |-> FALSE, countdown |-> 0, alertOpen |-> FALSE, isSending |-> FALSE,
   pc |-> "idle", firebaseSent |-> FALSE, bridgefySent |-> FALSE, outcome |-> "none",
   via |-> "none", cancelled |-> FALSE, peerTried |-> FALSE, cloudTried |-> FALSE,
   cloudSent |-> FALSE, sosDocs |-> 0, timers |-> 0, sends |-> 0]

\* A stopSosCountdown that leaves the interval running.
StopLeavesInterval(w) == w

\* stopSosCountdown: clearInterval(this.sosCountdownInterval)
stopSosCountdown(w) ==
  IF w.interval THEN [w EXCEPT !.interval = FALSE, !.timers = @ - 1] ELSE w

\* startSosCountdown: a running countdown is reset to 5 seconds, else the
\* countdown starts, the alert is shown and the interval is set.
startSosCountdown(w) ==
  IF w.interval THEN [w EXCEPT !.countdown = SosCountdownSeconds]
  ELSE [w EXCEPT !.countdown = SosCountdownSeconds, !.interval = TRUE,
                 !.timers = @ + 1,
                 !.alertOpen = TRUE, !.cancelled = FALSE]

\* A sendSOS without the isSending test.
sendSOSUnguarded(w, via) ==
  [w EXCEPT !.isSending = TRUE, !.pc = "location", !.via = via,
            !.sends = @ + 1,
            !.firebaseSent = FALSE, !.bridgefySent = FALSE, !.outcome = "none",
            !.peerTried = FALSE, !.cloudTried = FALSE, !.cloudSent = FALSE,
                 !.sosDocs = 0]

\* sendSOS up to `await locationService.getCurrentLocation()`:
\* if (this.isSending) return; this.isSending = true
sendSOS(w, via) ==
  IF w.isSending THEN w
  ELSE [w EXCEPT !.isSending = TRUE, !.pc = "location", !.via = via,
                 !.sends = @ + 1,
                 !.firebaseSent = FALSE, !.bridgefySent = FALSE, !.outcome = "none",
                 !.peerTried = FALSE, !.cloudTried = FALSE, !.cloudSent = FALSE,
                 !.sosDocs = 0]

\* A catch that shows no alert.
ShowNoError(w) == [w EXCEPT !.isSending = FALSE, !.pc = "idle", !.sends = @ - 1]

\* The catch of sendSOS: Alert 'SOS Error'; finally isSending = false.
ShowError(w) ==
  [w EXCEPT !.outcome = "error", !.isSending = FALSE, !.pc = "idle", !.sends = @ - 1]

\* The text of the alert for sendSOSMessage's result success:
\*   'SOS Sent', '... broadcast to nearby hikers' +
\*               (firebaseService.isSignedIn() ? ' and to the cloud.' : '.')
\*   'SOS Sending Failed'
AlertFor(success, isSignedIn) ==
  IF success THEN (IF isSignedIn THEN "sentCloud" ELSE "sentPeers") ELSE "failed"

\* The alert of the try block; finally isSending = false.
ShowResult(w) ==
  [w EXCEPT !.outcome = AlertFor(w.firebaseSent \/ w.bridgefySent, signedIn),
            !.isSending = FALSE, !.pc = "idle", !.sends = @ - 1]

\* onShake / onLongPress: if (this.isSending) return; startSosCountdown()
OnShake ==
  /\ ~sos.isSending
  /\ sos' = startSosCountdown(sos)
  /\ sos' # sos
  /\ UNCHANGED <<coord, msgVars, chat, viewer, track, extVars>>

\* The setInterval callback of startSosCountdown (every second).
CountdownTick ==
  /\ sos.interval
  /\ LET w == [sos EXCEPT !.countdown = @ - 1] IN
       sos' = IF w.countdown <= 0 THEN sendSOS(stopSosCountdown(w), "countdown") ELSE w
  /\ UNCHANGED <<coord, msgVars, chat, viewer, track, extVars>>

\* The Cancel button of the alert: stopSosCountdown().
PressCancel ==
  /\ sos.alertOpen
  /\ sos' = [stopSosCountdown(sos) EXCEPT !.alertOpen = FALSE,
                                          !.cancelled = @ \/ sos.interval]
  /\ UNCHANGED <<coord, msgVars, chat, viewer, track, extVars>>

\* The Send Now button of the alert: stopSosCountdown(); sendSOS().
PressSendNow ==
  /\ sos.alertOpen
  /\ sos' = sendSOS([stopSosCountdown(sos) EXCEPT !.alertOpen = FALSE], "sendNow")
  /\ UNCHANGED <<coord, msgVars, chat, viewer, track, extVars>>

\* cleanup(), or stopSosCountdown() called by the screen.
Cleanup ==
  /\ sos.interval
  /\ sos' = [stopSosCountdown(sos) EXCEPT !.cancelled = TRUE]
  /\ UNCHANGED <<coord, msgVars, chat, viewer, track, extVars>>

\* sendSOS: its location fetch returns (ok) or throws; then
\* messagingService.sendSOSMessage(message) is called, which throws when the
\* messaging service is not initialized.
SosLocation ==
  /\ sos.pc = "location"
  /\ \E ok \in BOOLEAN :
       sos' = IF ok /\ initialized THEN [sos EXCEPT !.pc = "msgLocation"]
              ELSE ShowError(sos)
  /\ UNCHANGED <<coord, msgVars, chat, viewer, track, extVars>>

\* sendSOSMessage: const location = await locationService.getCurrentLocation();
\* if (!location) throw: the throw reaches the catch of sendSOS.
SosMsgLocation ==
  /\ sos.pc = "msgLocation"
  /\ \E ok \in BOOLEAN :
       sos' = IF ok THEN [sos EXCEPT !.pc = "msgCloud"] ELSE ShowError(sos)
  /\ UNCHANGED <<coord, msgVars, chat, viewer, track, extVars>>

\* saveUserLocation(location, true): updateDoc on the user document, then
\* if (isEmergency) setDoc on a new document of the 'sos' collection.
SosDocsOfLocation(saved) == IF saved THEN 1 ELSE 0

\* A Firebase leg without its try / catch: a failed cloud write ends the send.
SosMsgCloudUncaught ==
  /\ sos.pc = "msgCloud"
  /\ IF CloudLegTried
     THEN \E ok \in BOOLEAN :
            sos' = IF CloudSaveSucceeds(ok)
                   THEN [sos EXCEPT !.pc = "msgPeer", !.cloudTried = TRUE,
                                    !.firebaseSent = TRUE, !.cloudSent = TRUE,
                                    !.sosDocs = @ + SosDocsOfLocation(TRUE)]
                   ELSE ShowError([sos EXCEPT !.cloudTried = TRUE])
     ELSE sos' = [sos EXCEPT !.pc = "msgPeer"]
  /\ UNCHANGED <<coord, msgVars, chat, viewer, track, extVars>>

\* sendSOSMessage, the Firebase leg, in try / catch:
\*   if (this.isOnline && firebaseService.isSignedIn())
\*     await firebaseService.saveUserLocation(...); firebaseSent = true
SosMsgCloud ==
  /\ sos.pc = "msgCloud"
  /\ IF CloudLegTried
     THEN \E ok \in BOOLEAN :
            sos' = [sos EXCEPT !.pc = "msgPeer", !.cloudTried = TRUE,
                               !.firebaseSent = CloudSaveSucceeds(ok),
                               !.cloudSent = CloudSaveSucceeds(ok),
                               !.sosDocs = @ + SosDocsOfLocation(CloudSaveSucceeds(ok))]
     ELSE sos' = [sos EXCEPT !.pc = "msgPeer"]
  /\ UNCHANGED <<coord, msgVars, chat, viewer, track, extVars>>

\* What sendSOS does when sendSOSMessage has returned:
\* if (firebaseService.isSignedIn()) the cloud notification, else the alert.
AfterSendSOSMessage(w) == IF signedIn THEN [w EXCEPT !.pc = "cloud"] ELSE ShowResult(w)

\* sendSOSMessage, the Bridgefy leg (isOfflineMessagingEnabled is true):
\* bridgefySent = await bridgefyService.sendSOS(message), false when it
\* throws; return firebaseSent || bridgefySent.
SosMsgPeer ==
  /\ sos.pc = "msgPeer"
  /\ \E sent \in BOOLEAN :
       sos' = AfterSendSOSMessage([sos EXCEPT !.peerTried = TRUE, !.bridgefySent = sent])
  /\ UNCHANGED <<coord, msgVars, chat, viewer, track, extVars>>

\* sendSOS, the cloud notification in try / catch, and the alert:
\*   await firebaseService.saveUserLocation({...location, message}, true);
\*   await this._sendSOSPushNotification(userData, location, message);
\* the latter calls saveSOSEvent (setDoc on another new 'sos' document) and
\* is reached only when saveUserLocation did not throw; event tells whether
\* its setDoc succeeds.
SosCloud ==
  /\ sos.pc = "cloud"
  /\ \E ok, event \in BOOLEAN :
       sos' = ShowResult([sos EXCEPT
                 !.cloudTried = TRUE,
                 !.cloudSent = @ \/ CloudSaveSucceeds(ok),
                 !.sosDocs = @ + SosDocsOfLocation(CloudSaveSucceeds(ok))
                               + (IF CloudSaveSucceeds(ok) /\ event THEN 1 ELSE 0)])
  /\ UNCHANGED <<coord, msgVars, chat, viewer, track, extVars>>

\* ================================================ BackgroundLocationService
\* this.trackingMode: 'standard', 'power-saving', 'high-accuracy'.
TrackingModes == {"standard", "power-saving", "high-accuracy"}

\* What the activity recognition reports.
Activities == {"still", "walking", "on_foot", "running", "on_bicycle", "in_vehicle"}
Confidences == {ActivityThreshold - 1, ActivityThreshold, 100}
ActivityEvents == [activity : Activities, confidence : Confidences]

NoInit == [pc |-> "idle", mode |-> "none", cfg |-> "none"]
NoStart == [pc |-> "idle", mode |-> "none"]
NoCall == [op |-> "none", arg |-> "none", confidence |-> 0, n |-> 0]

\* The constructor. config is the mode whose configuration the provider last
\* took, timerMode the mode the backup interval was computed for, pending the
\* setConfig calls the provider has not answered yet, last the call handled
\* last (n alternates with each call).
InitTrack ==
  [isInitialized |-> FALSE, isTracking |-> FALSE, trackingMode |-> "standard",
   config |-> "none", timerMode |-> "none", ready |-> FALSE,
   init |-> NoInit, start |-> NoStart,
   stopping |-> FALSE, cleaning |-> FALSE, pending |-> <<>>, last |-> NoCall]

Called(t, op, arg, confidence) ==
  [t EXCEPT !.last = [op |-> op, arg |-> arg, confidence |-> confidence,
                      n |-> 1 - t.last.n]]

\* _getConfigForMode: each mode has its own configuration; the model names a
\* configuration by its mode.
getConfigForMode(mode) == mode

\* _setupBackupInterval: the interval is computed from this.trackingMode.
setupBackupInterval(t) == [t EXCEPT !.timerMode = t.trackingMode]

\* A setTrackingMode that assigns the mode only after setConfig has answered.
setTrackingModeAfterConfig(t, mode) ==
  IF ~t.isInitialized \/ mode = t.trackingMode THEN t
  ELSE [t EXCEPT !.pending = Append(@, [mode |-> getConfigForMode(mode), by |-> "set"])]

\* setTrackingMode up to its await:
\*   if (!this.isInitialized) return false;
\*   if (mode === this.trackingMode) return true;
\*   this.trackingMode = mode; await BackgroundGeolocation.setConfig(...)
setTrackingMode(t, mode) ==
  IF ~t.isInitialized \/ mode = t.trackingMode THEN t
  ELSE [t EXCEPT !.trackingMode = mode,
                 !.pending = Append(@, [mode |-> getConfigForMode(mode), by |-> "set"])]

\* A handler without the confidence test.
AlwaysConfident(event) == TRUE

\* _onActivityChange: if (event.confidence >= 75)
Confident(event) == event.confidence >= ActivityThreshold

\* A mapping that sends every activity to the standard mode.
AlwaysStandard(activity) == "standard"

\* _onActivityChange: the mode an activity selects, "none" for an activity
\* the handler has no branch for.
ModeFor(activity) ==
  CASE activity = "still" -> "power-saving"
    [] activity \in {"walking", "on_foot"} -> "standard"
    [] activity \in {"running", "on_bicycle"} -> "high-accuracy"
    [] OTHER -> "none"

CanQueue == Len(track.pending) < MaxPending

\* The provider delivers an activity event (it does so once ready() has
\* answered); _onActivityChange calls setTrackingMode without awaiting it.
OnActivityChange(event) ==
  /\ track.ready
  /\ CanQueue
  /\ track' = Called(IF Confident(event) /\ ModeFor(event.activity) # "none"
                     THEN setTrackingMode(track, ModeFor(event.activity))
                     ELSE track,
                     "activity", event.activity, event.confidence)
  /\ UNCHANGED <<coord, msgVars, chat, viewer, sos, extVars>>

\* The user selects a mode: setTrackingMode(mode).
SetTrackingMode(mode) ==
  /\ CanQueue
  /\ track' = Called(setTrackingMode(track, mode), "setTrackingMode", mode, 0)
  /\ UNCHANGED <<coord, msgVars, chat, viewer, sos, extVars>>

\* initialize(options) up to `await requestLocationPermissions(true)`.
TrackInitialize(mode) ==
  /\ ~track.isInitialized
  /\ track.init.pc = "idle"
  /\ track' = [track EXCEPT !.init = [pc |-> "permissions", mode |-> mode, cfg |-> "none"]]
  /\ UNCHANGED <<coord, msgVars, chat, viewer, sos, extVars>>

\* initialize: permissions answered;
\*   this.trackingMode = options.trackingMode || this.trackingMode;
\*   const config = this._getConfigForMode(this.trackingMode);
\*   await BackgroundGeolocation.ready(config)
InitPermissions ==
  /\ track.init.pc = "permissions"
  /\ \E hasPermissions \in BOOLEAN :
       track' = IF hasPermissions
                THEN LET mode == IF track.init.mode # "none"
                                 THEN track.init.mode ELSE track.trackingMode
                     IN [track EXCEPT !.trackingMode = mode,
                                      !.init.pc = "ready",
                                      !.init.cfg = getConfigForMode(mode)]
                ELSE [track EXCEPT !.init = NoInit]
  /\ UNCHANGED <<coord, msgVars, chat, viewer, sos, extVars>>

\* initialize: ready(config) answered; await this._configureBackgroundFetch().
\* A rejection goes to the catch, which returns false.
InitReady ==
  /\ track.init.pc = "ready"
  /\ \E ok \in BOOLEAN :
       track' = IF ok
                THEN [track EXCEPT !.config = track.init.cfg, !.ready = TRUE,
                                   !.init.pc = "fetch"]
                ELSE [track EXCEPT !.init = NoInit]
  /\ UNCHANGED <<coord, msgVars, chat, viewer, sos, extVars>>

\* initialize: BackgroundFetch.configure answered;
\*   this._setupBackupInterval(); this.isInitialized = true
InitFetch ==
  /\ track.init.pc = "fetch"
  /\ \E ok \in BOOLEAN :
       track' = IF ok
                THEN [setupBackupInterval(track) EXCEPT !.isInitialized = TRUE,
                                                        !.init = NoInit]
                ELSE [track EXCEPT !.init = NoInit]
  /\ UNCHANGED <<coord, msgVars, chat, viewer, sos, extVars>>

\* startTracking after initialization, up to its await:
\*   if (mode && mode !== this.trackingMode) {
\*     this.trackingMode = mode; await BackgroundGeolocation.setConfig(...) }
\*   await BackgroundGeolocation.start()
startTracking(t, mode) ==
  IF mode # "none" /\ mode # t.trackingMode
  THEN [t EXCEPT !.trackingMode = mode,
                 !.pending = Append(@, [mode |-> getConfigForMode(mode), by |-> "start"]),
                 !.start = [pc |-> "config", mode |-> mode]]
  ELSE [t EXCEPT !.start = [pc |-> "start", mode |-> mode]]

\* The user starts tracking: startTracking(mode), mode "none" for null.
\*   if (!this.isInitialized) { const initialized = await this.initialize(); ... }
StartTracking(mode) ==
  /\ track.start.pc = "idle"
  /\ CanQueue
  /\ IF track.isInitialized
     THEN track' = Called(startTracking(track, mode), "startTracking", mode, 0)
     ELSE /\ track.init.pc = "idle"
          /\ track' = Called([track EXCEPT
                                !.init = [pc |-> "permissions", mode |-> "none",
                                          cfg |-> "none"],
                                !.start = [pc |-> "init", mode |-> mode]],
                             "startTracking", mode, 0)
  /\ UNCHANGED <<coord, msgVars, chat, viewer, sos, extVars>>

\* startTracking: initialize() has answered; if (!initialized) return false.
StartAfterInit ==
  /\ track.start.pc = "init"
  /\ track.init.pc = "idle"
  /\ CanQueue
  /\ track' = IF track.isInitialized
              THEN startTracking(track, track.start.mode)
              ELSE [track EXCEPT !.start = NoStart]
  /\ UNCHANGED <<coord, msgVars, chat, viewer, sos, extVars>>

\* The provider answers the oldest setConfig. In setTrackingMode:
\*   this._setupBackupInterval(); return true      (catch: return false)
\* in startTracking: await BackgroundGeolocation.start()  (catch: return false)
SetConfigDone ==
  /\ track.pending # <<>>
  /\ \E ok \in BOOLEAN :
       LET h == Head(track.pending)
           t == [track EXCEPT !.pending = Tail(@),
                              !.config = IF ok THEN h.mode ELSE @]
       IN track' = IF h.by = "set"
                   THEN (IF ok THEN setupBackupInterval(t) ELSE t)
                   ELSE (IF ok THEN [t EXCEPT !.start.pc = "start"]
                               ELSE [t EXCEPT !.start = NoStart])
  /\ UNCHANGED <<coord, msgVars, chat, viewer, sos, extVars>>

\* startTracking: BackgroundGeolocation.start() answered;
\*   BackgroundFetch.start(); this.isTracking = true
StartDone ==
  /\ track.start.pc = "start"
  /\ \E ok \in BOOLEAN :
       track' = [track EXCEPT !.isTracking = @ \/ ok, !.start = NoStart]
  /\ UNCHANGED <<coord, msgVars, chat, viewer, sos, extVars>>

\* cleanup after `await this.stopTracking()`:
\*   this.locationListeners = [];
\*   if (this.isInitialized) BackgroundGeolocation.removeListeners();
\*   this.isInitialized = false
\* (removeListeners ends the delivery of provider events).
cleanupAfterStop(t) ==
  Called([t EXCEPT !.ready = IF t.isInitialized THEN FALSE ELSE @,
                   !.isInitialized = FALSE, !.cleaning = FALSE],
         "cleanup", "none", 0)

\* stopTracking has returned, to the user or to cleanup.
stopReturns(t) ==
  IF t.cleaning THEN cleanupAfterStop(t) ELSE Called(t, "stopTracking", "none", 0)

\* stopTracking up to `await BackgroundGeolocation.stop()`:
\*   if (!this.isTracking) return true
stopTracking(t) ==
  IF ~t.isTracking THEN stopReturns(t) ELSE [t EXCEPT !.stopping = TRUE]

\* The user stops tracking.
StopTracking ==
  /\ ~track.stopping
  /\ ~track.cleaning
  /\ track' = stopTracking(track)
  /\ UNCHANGED <<coord, msgVars, chat, viewer, sos, extVars>>

\* cleanup: await this.stopTracking(), then the rest.
TrackCleanup ==
  /\ ~track.stopping
  /\ ~track.cleaning
  /\ track' = stopTracking([track EXCEPT !.cleaning = TRUE])
  /\ UNCHANGED <<coord, msgVars, chat, viewer, sos, extVars>>

\* stopTracking: stop() answered; BackgroundFetch.stop(); the backup interval
\* is cleared; this.isTracking = false. A rejection goes to the catch, which
\* returns false.
StopDone ==
  /\ track.stopping
  /\ \E ok \in BOOLEAN :
       track' = stopReturns(IF ok
                            THEN [track EXCEPT !.timerMode = "none",
                                               !.isTracking = FALSE,
                                               !.stopping = FALSE]
                            ELSE [track EXCEPT !.stopping = FALSE])
  /\ UNCHANGED <<coord, msgVars, chat, viewer, sos, extVars>>

\* ============================================== DatabaseService, pruning
\* db is the deleteOldMessages call in flight and what the last call of a
\* DatabaseService method did:
\*   pc        "idle", "count", "contents", "messages": the statement awaited
\*   cutoff    cutoffDateStr of the call
\*   orphaned  content rows the last deleteOldMessages left without a message
\*   last      the method that returned last, its identifier and its result
NoDbCall == [op |-> "none", id |-> NoId, result |-> "none", n |-> 0]
\*   sqlError  whether the statement of the last targeted update was rejected
InitDb == [pc |-> "idle", cutoff |-> 0, orphaned |-> {}, last |-> NoDbCall,
           sqlError |-> FALSE]

DbReturned(d, op, id, result) ==
  [d EXCEPT !.pc = "idle",
            !.last = [op |-> op, id |-> id, result |-> result, n |-> 1 - d.last.n]]

\* WHERE timestamp < ? AND is_emergency = 0
PruneMatches(st, cutoff) ==
  {id \in MsgIds : st[id] # NoMsg /\ st[id].timestamp < cutoff /\ ~st[id].is_emergency}

\* deleteOldMessages(days) up to the await of the COUNT(*) query; the cutoff
\* is the date `days` days before the call.
DeleteOldMessages(cutoff) ==
  /\ initialized
  /\ db.pc = "idle"
  /\ db' = [db EXCEPT !.pc = "count", !.cutoff = cutoff, !.orphaned = {}]
  /\ UNCHANGED <<msgVars, coord, chat, viewer, sos, track, peers, loc>>

\* The COUNT(*) query is answered: nothing is deleted when count is 0; a
\* rejection goes to the catch, which returns 0.
PruneCount ==
  /\ db.pc = "count"
  /\ \E ok \in BOOLEAN :
       db' = IF ~ok THEN DbReturned(db, "deleteOldMessages", NoId, "failed")
             ELSE IF PruneMatches(store, db.cutoff) = {}
             THEN DbReturned(db, "deleteOldMessages", NoId, "done")
             ELSE [db EXCEPT !.pc = "contents"]
  /\ UNCHANGED <<msgVars, coord, chat, viewer, sos, track, peers, loc>>

\* DELETE FROM message_contents WHERE message_id IN (SELECT id FROM messages
\* WHERE timestamp < ? AND is_emergency = 0)
PruneContents ==
  /\ db.pc = "contents"
  /\ \E ok \in BOOLEAN :
       IF ok
       THEN /\ store' = [id \in MsgIds |->
                           IF id \in PruneMatches(store, db.cutoff)
                           THEN [store[id] EXCEPT !.content_row = FALSE]
                           ELSE store[id]]
            /\ db' = [db EXCEPT !.pc = "messages"]
       ELSE /\ store' = store
            /\ db' = DbReturned(db, "deleteOldMessages", NoId, "failed")
  /\ UNCHANGED <<initialized, fbInitialized, signedIn, onlineStatus, isOnline,
                 navOnline, now, sweep, sender, receiver, cloudSaved, everSynced>>
  /\ UNCHANGED <<coord, chat, viewer, sos, track, peers, loc>>

\* DELETE FROM messages WHERE timestamp < ? AND is_emergency = 0. The content
\* row of a deleted message goes with it (ON DELETE CASCADE) only when the
\* connection enforces foreign keys, which the service never asks for
\* (cascade is either outcome).
PruneMessages ==
  /\ db.pc = "messages"
  /\ \E ok \in BOOLEAN, cascade \in BOOLEAN :
       IF ok
       THEN LET gone == PruneMatches(store, db.cutoff)
            IN /\ store' = [id \in MsgIds |-> IF id \in gone THEN NoMsg ELSE store[id]]
               /\ db' = DbReturned([db EXCEPT !.orphaned =
                                      IF cascade THEN {}
                                      ELSE {id \in gone : store[id].content_row}],
                                   "deleteOldMessages", NoId, "done")
       ELSE /\ store' = store
            /\ db' = DbReturned(db, "deleteOldMessages", NoId, "failed")
  /\ UNCHANGED <<initialized, fbInitialized, signedIn, onlineStatus, isOnline,
                 navOnline, now, sweep, sender, receiver, cloudSaved, everSynced>>
  /\ UNCHANGED <<coord, chat, viewer, sos, track, peers, loc>>

\* The sync statuses a caller may pass to updateMessageSyncStatus.
SyncStatuses == {"pending", "syncing", "synced", "failed"}

\* A targeted update called on its own: one UPDATE statement in try / catch,
\*   return true      (catch: return false)
\* ok tells whether the statement succeeds, updated is the store it leaves.
TargetedUpdate(op, messageId, updated) ==
  /\ initialized
  /\ db.pc = "idle"
  /\ \E ok \in BOOLEAN :
       /\ store' = IF ok THEN updated ELSE store
       /\ db' = [DbReturned(db, op, messageId, IF ok THEN "true" ELSE "false")
                  EXCEPT !.sqlError = ~ok]
  /\ UNCHANGED <<initialized, fbInitialized, signedIn, onlineStatus, isOnline,
                 navOnline, now, sweep, sender, receiver, cloudSaved, everSynced>>
  /\ UNCHANGED <<coord, chat, viewer, sos, track, peers, loc>>

MarkMessageDelivered(messageId) ==
  TargetedUpdate("markMessageDelivered", messageId,
                 markMessageDelivered(store, messageId))

UpdateMessageSyncStatus(messageId, status) ==
  TargetedUpdate("updateMessageSyncStatus", messageId,
                 updateMessageSyncStatus(store, messageId, status))

MarkMessageForSync(messageId, needsSync) ==
  TargetedUpdate("markMessageForSync", messageId,
                 markMessageForSync(store, messageId, needsSync))

\* ================================================================== peers
\* peers.table is the peers table as the set of its rows; the transport keeps
\*   isStarted   bridgefyService.isStarted
\*   available   availablePeers: identifier -> connectionState of the peer
\*               object, "none" when the map has no entry
\*   connected   keys of connectedPeers
\*   connecting  peers whose connection timeout has not fired yet
PeerIds == {"p1", "p2"}
CONNECTION_STATE ==
  [DISCONNECTED |-> "disconnected", CONNECTING |-> "connecting",
   CONNECTED |-> "connected"]
NoUid == "null"
InitPeers ==
  [table |-> {}, isStarted |-> FALSE, available |-> [id \in PeerIds |-> "none"],
   connected |-> {}, connecting |-> {}]

\* The peer object the transport hands to the listeners.
PeerObject(id, state) == [id |-> id, connectionState |-> state]

\* An INSERT that keeps the row the table already has for the identifier.
insertPeer(table, peer) ==
  table \cup {[id |-> peer.id, connection_state |-> peer.connectionState,
               firebase_uid |-> NoUid]}

\* savePeer: INSERT OR REPLACE INTO peers (id is the primary key); the peer
\* objects of the transport carry no firebaseUid, the column becomes null.
savePeer(table, peer) ==
  {r \in table : r.id # peer.id}
    \cup {[id |-> peer.id, connection_state |-> peer.connectionState,
           firebase_uid |-> NoUid]}

\* updatePeerFirebaseUid: UPDATE peers SET firebase_uid = ? WHERE id = ?
updatePeerFirebaseUid(table, peerId, firebaseUid) ==
  {IF r.id = peerId THEN [r EXCEPT !.firebase_uid = firebaseUid] ELSE r : r \in table}

\* _handlePeerDetected / _handlePeerConnectionStateChanged: savePeer(peer),
\* which returns false and leaves the table alone when the statement fails.
HandlePeerSaved(table, peer) == {savePeer(table, peer), table}

PeerFrame == UNCHANGED <<coord, msgVars, chat, viewer, sos, track, db, loc>>

\* bridgefyService.start after the coordinator was initialized.
BridgefyStart ==
  /\ initialized /\ ~peers.isStarted
  /\ peers' = [peers EXCEPT !.isStarted = TRUE]
  /\ PeerFrame

\* bridgefyService.stop: both peer maps are cleared, the table is not touched.
BridgefyStop ==
  /\ peers.isStarted
  /\ peers' = [peers EXCEPT !.isStarted = FALSE,
                            !.available = [id \in PeerIds |-> "none"],
                            !.connected = {}]
  /\ PeerFrame

\* A peer is discovered (again): availablePeers.set, then _handlePeerDetected.
PeerDetected(id) ==
  /\ peers.isStarted
  /\ \E saved \in HandlePeerSaved(peers.table,
                                  PeerObject(id, CONNECTION_STATE.DISCONNECTED)) :
       peers' = [peers EXCEPT !.available[id] = CONNECTION_STATE.DISCONNECTED,
                              !.table = saved]
  /\ PeerFrame

\* A peer is lost: removed from both maps; _handlePeerLost does nothing.
PeerLost(id) ==
  /\ peers.isStarted /\ peers.available[id] # "none"
  /\ peers' = [peers EXCEPT !.available[id] = "none", !.connected = @ \ {id}]
  /\ PeerFrame

\* connectToPeer up to its timeout: the peer becomes CONNECTING.
ConnectToPeer(id) ==
  /\ peers.isStarted /\ peers.available[id] # "none" /\ id \notin peers.connected
  /\ \E saved \in HandlePeerSaved(peers.table,
                                  PeerObject(id, CONNECTION_STATE.CONNECTING)) :
       peers' = [peers EXCEPT !.available[id] = CONNECTION_STATE.CONNECTING,
                              !.connecting = @ \cup {id},
                              !.table = saved]
  /\ PeerFrame

\* The timeout of connectToPeer: the peer object becomes CONNECTED and is put
\* into connectedPeers, whatever happened to the transport meanwhile.
ConnectTimeout(id) ==
  /\ id \in peers.connecting
  /\ \E saved \in HandlePeerSaved(peers.table,
                                  PeerObject(id, CONNECTION_STATE.CONNECTED)) :
       peers' = [peers EXCEPT !.available[id] =
                                IF @ = "none" THEN @ ELSE CONNECTION_STATE.CONNECTED,
                              !.connected = @ \cup {id},
                              !.connecting = @ \ {id},
                              !.table = saved]
  /\ PeerFrame

\* disconnectFromPeer
DisconnectFromPeer(id) ==
  /\ peers.isStarted /\ id \in peers.connected
  /\ \E saved \in HandlePeerSaved(peers.table,
                                  PeerObject(id, CONNECTION_STATE.DISCONNECTED)) :
       peers' = [peers EXCEPT !.available[id] =
                                IF @ = "none" THEN @ ELSE CONNECTION_STATE.DISCONNECTED,
                              !.connected = @ \ {id},
                              !.table = saved]
  /\ PeerFrame

\* updatePeerFirebaseUid called for a peer identifier.
UpdatePeerFirebaseUid(id) ==
  /\ initialized
  /\ \E ok \in BOOLEAN :
       peers' = [peers EXCEPT !.table =
                   IF ok THEN updatePeerFirebaseUid(@, id, "uid") ELSE @]
  /\ PeerFrame

\* ======================================================= location sampling
\* loc.get is the explicit getCurrentLocation(highAccuracy) call in flight:
\*   pc        "idle", "init" (awaiting initialize()), "background" (awaiting
\*             BackgroundGeolocation.getCurrentPosition), "foreground"
\*             (awaiting locationService.getCurrentLocation())
\*   result    what the last call gave its caller: "location", "null", "threw"
\*   fgTried, fgFailed   the foreground service was asked / failed, in that call
NoGet == [pc |-> "idle", result |-> "none", fgTried |-> FALSE, fgFailed |-> FALSE]

\* The options of initialize the configurations are computed from, in
\* milliseconds and metres; the values are chosen so that every division of
\* _getConfigForMode is exact.
UpdateIntervals == {3000, 6000, 30000, DefaultUpdateInterval}
Displacements == {2, 4, DefaultMinDisplacement, 20}
Max(a, b) == IF a >= b THEN a ELSE b

\* _getConfigForMode(mode) with this.locationUpdateInterval = interval and
\* this.minDisplacement = displacement: the fields that differ between modes.
ConfigForMode(mode, interval, displacement) ==
  CASE mode = "power-saving" ->
         [desiredAccuracy |-> "LOW",
          distanceFilter |-> displacement * 3,
          locationUpdateInterval |-> interval * 3,
          fastestLocationUpdateInterval |-> (interval * 3) \div 2,
          stopTimeout |-> 2]
    [] mode = "high-accuracy" ->
         [desiredAccuracy |-> "HIGH",
          distanceFilter |-> Max(5, displacement \div 2),
          locationUpdateInterval |-> Max(10000, interval \div 3),
          fastestLocationUpdateInterval |-> Max(5000, interval \div 6),
          stopTimeout |-> 10]
    [] OTHER ->
         [desiredAccuracy |-> "MEDIUM",
          distanceFilter |-> displacement,
          locationUpdateInterval |-> interval,
          fastestLocationUpdateInterval |-> interval \div 2,
          stopTimeout |-> 5]

\* _setupBackupInterval: the interval of the backup timer.
BackupInterval(mode, interval) ==
  IF mode = "power-saving" THEN interval * 3
  ELSE IF mode = "high-accuracy" THEN Max(10000, interval \div 3)
  ELSE interval

NoConfig == [desiredAccuracy |-> "none"]

\* LocationService (the foreground provider):
\*   watchId     this.watchId, 0 for null
\*   isTracking  this.isTracking
\*   starting    the calls of startTracking that await initialize()
\*   watches     the position watches of navigator.geolocation not cleared
\*   nextWatch   the identifier watchPosition returns next
\*   current     the watch whose position is this.currentLocation, 0 for null
MaxStarts == 2
MaxWatches == 3
InitForeground ==
  [watchId |-> 0, isTracking |-> FALSE, starting |-> 0, watches |-> {},
   nextWatch |-> 1, current |-> 0]

\* Cloud sync of the location samples. Time is counted in minutes.
\*   clock         Date.now()
\*   lastSyncTime  this.lastSyncTime, 0 for null
\*   stored        uuids of the locations the plugin keeps (getLocations)
\*   pending       uuids in this.pendingLocations
\*   next          uuid of the next sample
\*   calls         the calls of _syncLocationsToCloud in flight: pc is "idle",
\*                 "getLocations", "save" or "destroy", batch how often each
\*                 uuid occurs in the list the call uploads
\*   uploads       how often each uuid was written to the cloud (counted up
\*                 to MaxUploads)
\*   started       when _syncLocationsToCloud last got past its sign-in and
\*                 network check, and a bit that alternates at each such call
SyncIntervalMinutes == 5
MaxClock == 6
MaxLocs == 2
MaxSyncCalls == 2
MaxUploads == 2
LocIds == 1..MaxLocs
SyncCallIds == 1..MaxSyncCalls
NoBatch == [u \in LocIds |-> 0]
IdleSyncCall == [pc |-> "idle", batch |-> NoBatch]
InitSync ==
  [clock |-> 1, lastSyncTime |-> 0, stored |-> {}, pending |-> {}, next |-> 1,
   calls |-> [c \in SyncCallIds |-> IdleSyncCall],
   uploads |-> [u \in LocIds |-> 0],
   started |-> [at |-> 0, n |-> 0]]

\* loc also holds locationUpdateInterval and minDisplacement, the provider
\* configuration computed last and the interval the backup timer was last
\* given.
InitLoc ==
  [get |-> NoGet,
   locationUpdateInterval |-> DefaultUpdateInterval,
   minDisplacement |-> DefaultMinDisplacement,
   config |-> NoConfig, backupInterval |-> 0, sync |-> InitSync,
   fg |-> InitForeground]

\* initialize(options):
\*   this.locationUpdateInterval = options.locationUpdateInterval || ...
\*   this.minDisplacement = options.minDisplacement || ...
ApplyOptions(interval, displacement) ==
  /\ ~track.isInitialized
  /\ loc' = [loc EXCEPT !.locationUpdateInterval = interval,
                        !.minDisplacement = displacement]
  /\ UNCHANGED <<coord, msgVars, chat, viewer, sos, track, db, peers>>

\* The configuration and the backup interval of a mode are computed
\* (initialize, setTrackingMode).
ComputeConfig(mode) ==
  /\ loc' = [loc EXCEPT
               !.config = ConfigForMode(mode, loc.locationUpdateInterval,
                                        loc.minDisplacement),
               !.backupInterval = BackupInterval(mode, loc.locationUpdateInterval)]
  /\ UNCHANGED <<coord, msgVars, chat, viewer, sos, track, db, peers>>

\* getCurrentLocation up to its first await:
\*   if (!this.isInitialized) { const initialized = await this.initialize(); ...
GetCurrentLocation ==
  /\ loc.get.pc = "idle"
  /\ IF track.isInitialized
     THEN /\ loc' = [loc EXCEPT !.get = [NoGet EXCEPT !.pc = "background"]]
          /\ UNCHANGED track
     ELSE /\ track.init.pc = "idle"
          /\ track' = [track EXCEPT !.init = [pc |-> "permissions", mode |-> "none",
                                              cfg |-> "none"]]
          /\ loc' = [loc EXCEPT !.get = [NoGet EXCEPT !.pc = "init"]]
  /\ UNCHANGED <<coord, msgVars, chat, viewer, sos, db, peers>>

\* initialize() has answered:
\*   if (!initialized) throw new Error('Background location service not initialized')
GetAfterInit ==
  /\ loc.get.pc = "init"
  /\ track.init.pc = "idle"
  /\ loc' = [loc EXCEPT !.get = IF track.isInitialized
                                THEN [@ EXCEPT !.pc = "background"]
                                ELSE [@ EXCEPT !.pc = "idle", !.result = "threw"]]
  /\ UNCHANGED <<coord, msgVars, chat, viewer, sos, track, db, peers>>

\* BackgroundGeolocation.getCurrentPosition has answered; in the catch:
\*   return await locationService.getCurrentLocation()
GetBackground ==
  /\ loc.get.pc = "background"
  /\ \E ok \in BOOLEAN :
       loc' = [loc EXCEPT !.get = IF ok
                                  THEN [@ EXCEPT !.pc = "idle", !.result = "location"]
                                  ELSE [@ EXCEPT !.pc = "foreground", !.fgTried = TRUE]]
  /\ UNCHANGED <<coord, msgVars, chat, viewer, sos, track, db, peers>>

\* locationService.getCurrentLocation has answered: null when its initialize
\* fails, a rejection when navigator.geolocation reports an error.
GetForeground ==
  /\ loc.get.pc = "foreground"
  /\ \E outcome \in {"location", "null", "threw"} :
       loc' = [loc EXCEPT !.get = [@ EXCEPT !.pc = "idle", !.result = outcome,
                                            !.fgFailed = outcome # "location"]]
  /\ UNCHANGED <<coord, msgVars, chat, viewer, sos, track, db, peers>>

\* The app is killed and started again: the SQLite file and the cloud keep
\* their contents, every service object is constructed anew.
Crash ==
  /\ initialized
  /\ initialized' = FALSE
  /\ fbInitialized' = FALSE
  /\ signedIn' = FALSE
  /\ onlineStatus' = FALSE
  /\ isOnline' = FALSE
  /\ sweep' = [s \in SweepIds |-> IdleSweep]
  /\ sender' = IdleSender
  /\ receiver' = IdleReceiver
  /\ viewer' = IdleViewer
  /\ sos' = InitSos
  /\ track' = InitTrack
  /\ coord' = InitCoord
  /\ db' = InitDb
  /\ loc' = InitLoc
  /\ peers' = [InitPeers EXCEPT !.table = peers.table]
  /\ UNCHANGED <<store, navOnline, now, cloudSaved, everSynced, chat>>

LocSyncFrame == UNCHANGED <<coord, msgVars, chat, viewer, sos, track, db, peers>>

\* ========================================================= LocationService
\* startTracking up to `await this.initialize()`: if (this.isTracking) return
FgStartTracking ==
  /\ ~loc.fg.isTracking
  /\ loc.fg.starting < MaxStarts
  /\ loc' = [loc EXCEPT !.fg.starting = @ + 1]
  /\ LocSyncFrame

\* startTracking after initialize() has answered:
\*   if (!initialized) return;
\*   this.isTracking = true;
\*   try { this.watchId = navigator.geolocation.watchPosition(...) }
\*   catch { this.isTracking = false }
FgStartPermission ==
  /\ loc.fg.starting > 0
  /\ loc.fg.nextWatch <= MaxWatches
  /\ \E granted, watching \in BOOLEAN :
       loc' = IF ~granted THEN [loc EXCEPT !.fg.starting = @ - 1]
              ELSE IF watching
              THEN [loc EXCEPT !.fg.starting = @ - 1,
                               !.fg.isTracking = TRUE,
                               !.fg.watchId = loc.fg.nextWatch,
                               !.fg.watches = @ \cup {loc.fg.nextWatch},
                               !.fg.nextWatch = @ + 1]
              ELSE [loc EXCEPT !.fg.starting = @ - 1, !.fg.isTracking = FALSE]
  /\ LocSyncFrame

\* The success callback of a position watch that was not cleared:
\*   this.currentLocation = {...}; the callbacks are notified
FgWatchPosition(w) ==
  /\ w \in loc.fg.watches
  /\ loc' = [loc EXCEPT !.fg.current = w]
  /\ LocSyncFrame

\* stopTracking: if (this.watchId !== null) { clearWatch(this.watchId);
\*   this.watchId = null; this.isTracking = false }
FgStopTracking ==
  /\ loc.fg.watchId # 0
  /\ loc' = [loc EXCEPT !.fg.watches = @ \ {loc.fg.watchId},
                        !.fg.watchId = 0,
                        !.fg.isTracking = FALSE]
  /\ LocSyncFrame

\* ==================================================== location cloud sync

\* Time passes.
ClockTick ==
  /\ loc.sync.clock < MaxClock
  /\ loc' = [loc EXCEPT !.sync.clock = @ + 1]
  /\ LocSyncFrame

\* !this.lastSyncTime || (now - this.lastSyncTime) >= this.syncInterval
SyncDue(s) ==
  s.lastSyncTime = 0 \/ s.clock - s.lastSyncTime >= SyncIntervalMinutes

FreeSyncCalls(s) == {c \in SyncCallIds : s.calls[c].pc = "idle"}

\* _syncLocationsToCloud up to its first await:
\*   if (!firebaseService.isSignedIn() || !navigator.onLine) return 0;
\*   const locations = await BackgroundGeolocation.getLocations();
syncLocationsToCloud(s, online) ==
  IF ~online THEN s
  ELSE LET c == CHOOSE c \in FreeSyncCalls(s) : TRUE
       IN [s EXCEPT !.calls[c] = [pc |-> "getLocations", batch |-> NoBatch],
                    !.started = [at |-> s.clock, n |-> 1 - s.started.n]]

\* _onLocation: the plugin delivers a sample it has stored.
OnLocation ==
  /\ track.isInitialized
  /\ loc.sync.next <= MaxLocs
  /\ FreeSyncCalls(loc.sync) # {}
  /\ LET s == [loc.sync EXCEPT !.stored = @ \cup {loc.sync.next}, !.next = @ + 1]
     IN loc' = [loc EXCEPT !.sync =
                  IF navOnline /\ signedIn
                  THEN IF SyncDue(s) THEN syncLocationsToCloud(s, TRUE) ELSE s
                  ELSE [s EXCEPT !.pending = @ \cup {loc.sync.next}]]
  /\ LocSyncFrame

\* The callback of the backup timer after its getCurrentLocation:
\*   if (!this.lastSyncTime || ...) await this._syncLocationsToCloud()
BackupSync ==
  /\ track.isTracking /\ track.timerMode # "none"
  /\ FreeSyncCalls(loc.sync) # {}
  /\ SyncDue(loc.sync)
  /\ loc' = [loc EXCEPT !.sync = syncLocationsToCloud(@, navOnline /\ signedIn)]
  /\ LocSyncFrame

\* [...this.pendingLocations, ...locations]: the list is not deduplicated, a
\* uuid that is pending and stored occurs twice.
Unsynced(s) ==
  [u \in LocIds |-> (IF u \in s.pending THEN 1 ELSE 0)
                     + (IF u \in s.stored THEN 1 ELSE 0)]

\* getLocations() answers: pending and stored locations are the batch (the
\* batch size of 20 is never reached here); with nothing to sync the call
\* returns 0 and leaves lastSyncTime alone.
SyncGetLocations(c) ==
  /\ loc.sync.calls[c].pc = "getLocations"
  /\ LET unsynced == Unsynced(loc.sync)
     IN loc' = [loc EXCEPT !.sync.calls[c] =
                  IF unsynced = NoBatch THEN IdleSyncCall
                  ELSE [pc |-> "save", batch |-> unsynced]]
  /\ LocSyncFrame

\* await firebaseService.saveLocationHistory(formattedLocations).
\* firebaseService.js defines no saveLocationHistory, so the call as written
\* throws and the catch returns 0 ("throws"); "saved" is the answer of a
\* firebaseService that has the method its two callers use.
SaveLocationHistoryOutcomes == {"throws", "saved"}

SyncSave(c) ==
  /\ loc.sync.calls[c].pc = "save"
  /\ \E outcome \in SaveLocationHistoryOutcomes :
       loc' = IF outcome = "saved"
              THEN [loc EXCEPT !.sync.calls[c].pc = "destroy",
                               !.sync.uploads =
                                 [u \in LocIds |->
                                    Min(MaxUploads, @[u] + loc.sync.calls[c].batch[u])]]
              ELSE [loc EXCEPT !.sync.calls[c] = IdleSyncCall]
  /\ LocSyncFrame

\* destroyLocations(syncedIds) answers:
\*   this.lastSyncTime = Date.now(); this.pendingLocations = [];
SyncDestroy(c) ==
  /\ loc.sync.calls[c].pc = "destroy"
  /\ loc' = [loc EXCEPT !.sync.stored =
                          {u \in @ : loc.sync.calls[c].batch[u] = 0},
                        !.sync.lastSyncTime = loc.sync.clock,
                        !.sync.pending = {},
                        !.sync.calls[c] = IdleSyncCall]
  /\ LocSyncFrame

\* ========================================================== specification
Init ==
  /\ store = [id \in MsgIds |-> NoMsg]
  /\ initialized = FALSE
  /\ fbInitialized = FALSE
  /\ signedIn = FALSE
  /\ onlineStatus = FALSE
  /\ isOnline = FALSE
  /\ navOnline \in BOOLEAN
  /\ now = 1
  /\ sweep = [s \in SweepIds |-> IdleSweep]
  /\ sender = IdleSender
  /\ receiver = IdleReceiver
  /\ cloudSaved = {}
  /\ everSynced = {}
  /\ chat = [id \in MsgIds |-> NoMsg]
  /\ viewer = IdleViewer
  /\ sos = InitSos
  /\ track = InitTrack
  /\ coord = InitCoord
  /\ db = InitDb
  /\ peers = InitPeers
  /\ loc = InitLoc

Next ==
  \/ \E fb \in BOOLEAN : Initialize(fb)
  \/ \E u \in BOOLEAN : AuthStateChanged(u)
  \/ NetworkChange
  \/ CheckNetworkStatus(SweepIds)
  \/ FirebaseSyncTimer(SweepIds)
  \/ MessagingSyncTimer(SweepIds)
  \/ \E s \in SweepIds : SweepFetch(s)
  \/ \E s \in SweepIds : SweepMarkSyncing(s)
  \/ \E s \in SweepIds : SweepSave(s)
  \/ \E s \in SweepIds : SweepMarkForSync(s)
  \/ \E s \in SweepIds : SweepMarkSynced(s)
  \/ \E s \in SweepIds : SweepMarkFailed(s)
  \/ \E p \in Peers, c \in TextContents, t \in Times : SendTextMessage(p, c, t)
  \/ \E p \in Peers, e \in BOOLEAN, t \in Times : SendLocationMessage(p, e, t)
  \/ SendSOSMessage
  \/ SendCloud
  \/ SendPeer
  \/ \E m \in IncomingMessages : HandleBridgefyMessage(m)
  \/ ReceiveCloud
  \/ \E p \in Peers : GetMessages(p)
  \/ GetMessagesCloud
  \/ \E p \in Peers : GetMessagesSave(p)
  \/ GetMessagesMerge
  \/ \E id \in MsgIds, c \in TextContents, t \in Times : ChatDocWritten(id, c, t)
  \/ OnShake
  \/ CountdownTick
  \/ PressCancel
  \/ PressSendNow
  \/ Cleanup
  \/ SosLocation
  \/ SosMsgLocation
  \/ SosMsgCloud
  \/ SosMsgPeer
  \/ SosCloud
  \/ \E mode \in TrackingModes \cup {"none"} : TrackInitialize(mode)
  \/ InitPermissions
  \/ InitReady
  \/ InitFetch
  \/ \E event \in ActivityEvents : OnActivityChange(event)
  \/ \E mode \in TrackingModes : SetTrackingMode(mode)
  \/ \E mode \in TrackingModes \cup {"none"} : StartTracking(mode)
  \/ StartAfterInit
  \/ SetConfigDone
  \/ StartDone
  \/ StopTracking
  \/ TrackCleanup
  \/ StopDone
  \/ \E listenerId \in ListenerIds : Listen(listenerId)
  \/ FirebaseCleanup
  \/ Remount
  \/ \E cutoff \in Times : DeleteOldMessages(cutoff)
  \/ PruneCount
  \/ PruneContents
  \/ PruneMessages
  \/ \E id \in MsgIds : MarkMessageDelivered(id)
  \/ \E id \in MsgIds, status \in SyncStatuses : UpdateMessageSyncStatus(id, status)
  \/ \E id \in MsgIds, needsSync \in BOOLEAN : MarkMessageForSync(id, needsSync)
  \/ BridgefyStart
  \/ BridgefyStop
  \/ \E id \in PeerIds : PeerDetected(id)
  \/ \E id \in PeerIds : PeerLost(id)
  \/ \E id \in PeerIds : ConnectToPeer(id)
  \/ \E id \in PeerIds : ConnectTimeout(id)
  \/ \E id \in PeerIds : DisconnectFromPeer(id)
  \/ \E id \in PeerIds : UpdatePeerFirebaseUid(id)
  \/ FgStartTracking
  \/ FgStartPermission
  \/ \E w \in 1..MaxWatches : FgWatchPosition(w)
  \/ FgStopTracking
  \/ ClockTick
  \/ OnLocation
  \/ BackupSync
  \/ \E c \in SyncCallIds : SyncGetLocations(c)
  \/ \E c \in SyncCallIds : SyncSave(c)
  \/ \E c \in SyncCallIds : SyncDestroy(c)
  \/ GetCurrentLocation
  \/ GetAfterInit
  \/ GetBackground
  \/ GetForeground
  \/ \E i \in UpdateIntervals, d \in Displacements : ApplyOptions(i, d)
  \/ \E mode \in TrackingModes : ComputeConfig(mode)
  \/ Crash

\* The whole program.
Spec == Init /\ [][Next]_vars

\* Sending and sweeping, with the timers far enough apart that one
\* invocation of the sweep has returned before the next is made; no peer
\* message arrives and the app is not restarted.
SendNext ==
  \/ \E fb \in BOOLEAN : Initialize(fb)
  \/ \E u \in BOOLEAN : AuthStateChanged(u)
  \/ NetworkChange
  \/ CheckNetworkStatus({1})
  \/ FirebaseSyncTimer({1})
  \/ MessagingSyncTimer({1})
  \/ SweepFetch(1)
  \/ SweepMarkSyncing(1)
  \/ SweepSave(1)
  \/ SweepMarkForSync(1)
  \/ SweepMarkSynced(1)
  \/ SweepMarkFailed(1)
  \/ \E p \in Peers, c \in TextContents, t \in Times : SendTextMessage(p, c, t)
  \/ \E p \in Peers, e \in BOOLEAN, t \in Times : SendLocationMessage(p, e, t)
  \/ SendSOSMessage
  \/ SendCloud
  \/ SendPeer

SendSpec == Init /\ [][SendNext]_vars

\* Receiving from the peer transport and sweeping on the 30 s timer, one
\* invocation of the sweep at a time; connectivity stays what it is at the
\* start, nothing is sent and the app is not restarted.
ReceiveNext ==
  \/ \E fb \in BOOLEAN : Initialize(fb)
  \/ \E u \in BOOLEAN : AuthStateChanged(u)
  \/ FirebaseSyncTimer({1})
  \/ SweepFetch(1)
  \/ SweepMarkSyncing(1)
  \/ SweepSave(1)
  \/ SweepMarkForSync(1)
  \/ SweepMarkSynced(1)
  \/ SweepMarkFailed(1)
  \/ \E m \in IncomingMessages : HandleBridgefyMessage(m)
  \/ ReceiveCloud

ReceiveSpec == Init /\ [][ReceiveNext]_vars

\* Overlapping invocations of the sweep: Firebase is configured, the user
\* signs in and stays signed in, and text messages are sent.
OverlapNext ==
  \/ Initialize(TRUE)
  \/ AuthStateChanged(TRUE)
  \/ NetworkChange
  \/ CheckNetworkStatus(SweepIds)
  \/ FirebaseSyncTimer(SweepIds)
  \/ MessagingSyncTimer(SweepIds)
  \/ \E s \in SweepIds : SweepFetch(s)
  \/ \E s \in SweepIds : SweepMarkSyncing(s)
  \/ \E s \in SweepIds : SweepSave(s)
  \/ \E s \in SweepIds : SweepMarkForSync(s)
  \/ \E s \in SweepIds : SweepMarkSynced(s)
  \/ \E s \in SweepIds : SweepMarkFailed(s)
  \/ \E p \in Peers, c \in TextContents, t \in Times : SendTextMessage(p, c, t)
  \/ SendCloud
  \/ SendPeer

OverlapSpec == Init /\ [][OverlapNext]_vars

\* Reading the conversation with a peer while messages arrive in the cloud
\* chat and connectivity changes; nothing is sent or received over the peer
\* transport and no sweep runs.
ViewNext ==
  \/ \E fb \in BOOLEAN : Initialize(fb)
  \/ \E u \in BOOLEAN : AuthStateChanged(u)
  \/ NetworkChange
  \/ CheckNetworkStatus({})
  \/ \E p \in Peers : GetMessages(p)
  \/ GetMessagesCloud
  \/ \E p \in Peers : GetMessagesSave(p)
  \/ GetMessagesMerge
  \/ \E id \in MsgIds, c \in TextContents, t \in Times : ChatDocWritten(id, c, t)

ViewSpec == Init /\ [][ViewNext]_vars

\* Persisting what the peer transport delivers, malformed messages included,
\* while connectivity changes; no sweep runs and nothing is sent.
PersistNext ==
  \/ \E fb \in BOOLEAN : Initialize(fb)
  \/ \E u \in BOOLEAN : AuthStateChanged(u)
  \/ NetworkChange
  \/ CheckNetworkStatus({})
  \/ \E m \in IncomingMessages \cup MalformedMessages : HandleBridgefyMessage(m)
  \/ ReceiveCloud

PersistSpec == Init /\ [][PersistNext]_vars

\* The SOS countdown and the SOS send while the user signs in and out and
\* connectivity changes; no other message is sent.
SosNext ==
  \/ \E fb \in BOOLEAN : Initialize(fb)
  \/ \E u \in BOOLEAN : AuthStateChanged(u)
  \/ NetworkChange
  \/ CheckNetworkStatus({})
  \/ OnShake
  \/ CountdownTick
  \/ PressCancel
  \/ PressSendNow
  \/ Cleanup
  \/ SosLocation
  \/ SosMsgLocation
  \/ SosMsgCloud
  \/ SosMsgPeer
  \/ SosCloud

\* Every awaited call of sendSOS returns or throws.
SosFairness ==
  /\ WF_vars(SosLocation)
  /\ WF_vars(SosMsgLocation)
  /\ WF_vars(SosMsgCloud)
  /\ WF_vars(SosMsgPeer)
  /\ WF_vars(SosCloud)

SosSpec == Init /\ [][SosNext]_vars /\ SosFairness

\* Mounting and unmounting the app component: subscriptions, timers and the
\* sweeps they start; no message is sent or received.
TeardownNext ==
  \/ Initialize(TRUE)
  \/ \E u \in BOOLEAN : AuthStateChanged(u)
  \/ NetworkChange
  \/ CheckNetworkStatus(SweepIds)
  \/ FirebaseSyncTimer(SweepIds)
  \/ MessagingSyncTimer(SweepIds)
  \/ \E s \in SweepIds : SweepFetch(s)
  \/ \E listenerId \in ListenerIds : Listen(listenerId)
  \/ FirebaseCleanup
  \/ Remount

TeardownSpec == Init /\ [][TeardownNext]_vars

\* Explicit location requests while the tracking service is initialized,
\* started, stopped and cleaned up.
LocateNext ==
  \/ TrackInitialize("none")
  \/ InitPermissions
  \/ InitReady
  \/ InitFetch
  \/ StartTracking("none")
  \/ StartAfterInit
  \/ StartDone
  \/ StopTracking
  \/ TrackCleanup
  \/ StopDone
  \/ GetCurrentLocation
  \/ GetAfterInit
  \/ GetBackground
  \/ GetForeground

LocateSpec == Init /\ [][LocateNext]_vars

\* The configurations of the three modes for the options initialize takes.
ConfigNext ==
  \/ \E i \in UpdateIntervals, d \in Displacements : ApplyOptions(i, d)
  \/ \E mode \in TrackingModes : ComputeConfig(mode)

ConfigSpec == Init /\ [][ConfigNext]_vars

\* The targeted updates called on messages received from peers and on
\* identifiers the store does not hold.
TargetNext ==
  \/ Initialize(FALSE)
  \/ \E m \in {im \in IncomingMessages : im.timestamp = 1 /\ im.content[2] = "42"} : HandleBridgefyMessage(m)
  \/ ReceiveCloud
  \/ \E id \in MsgIds : MarkMessageDelivered(id)
  \/ \E id \in MsgIds, status \in SyncStatuses : UpdateMessageSyncStatus(id, status)
  \/ \E id \in MsgIds, needsSync \in BOOLEAN : MarkMessageForSync(id, needsSync)

TargetSpec == Init /\ [][TargetNext]_vars

\* Peers discovered, connected, lost and rediscovered while the transport is
\* started and stopped.
PeerNext ==
  \/ Initialize(FALSE)
  \/ BridgefyStart
  \/ BridgefyStop
  \/ \E id \in PeerIds : PeerDetected(id)
  \/ \E id \in PeerIds : PeerLost(id)
  \/ \E id \in PeerIds : ConnectToPeer(id)
  \/ \E id \in PeerIds : ConnectTimeout(id)
  \/ \E id \in PeerIds : DisconnectFromPeer(id)
  \/ \E id \in PeerIds : UpdatePeerFirebaseUid(id)

PeerSpec == Init /\ [][PeerNext]_vars

\* Location samples and backup timer callbacks of a signed-in user whose
\* location service is initialized and started.
LocSyncNext ==
  \/ Initialize(TRUE)
  \/ AuthStateChanged(TRUE)
  \/ TrackInitialize("none")
  \/ InitPermissions
  \/ InitReady
  \/ InitFetch
  \/ StartTracking("none")
  \/ StartDone
  \/ ClockTick
  \/ OnLocation
  \/ BackupSync
  \/ \E c \in SyncCallIds : SyncGetLocations(c)
  \/ \E c \in SyncCallIds : SyncSave(c)
  \/ \E c \in SyncCallIds : SyncDestroy(c)

LocSyncSpec == Init /\ [][LocSyncNext]_vars

\* Reading the conversation of a signed-in user while the 30 s sweep runs:
\* the peer transport delivers messages with identifier 1, the documents of
\* the cloud chat have other identifiers (Firestore document ids are not
\* local message ids).
FetchNext ==
  \/ Initialize(TRUE)
  \/ AuthStateChanged(TRUE)
  \/ \E m \in {im \in IncomingMessages :
                 im.messageId = 1 /\ im.timestamp = 1 /\ im.content[2] = "42"} :
       HandleBridgefyMessage(m)
  \/ ReceiveCloud
  \/ \E id \in MsgIds \ {1}, c \in TextContents, t \in Times : ChatDocWritten(id, c, t)
  \/ \E p \in Peers : GetMessages(p)
  \/ GetMessagesCloud
  \/ \E p \in Peers : GetMessagesSave(p)
  \/ GetMessagesMerge
  \/ FirebaseSyncTimer({1})
  \/ SweepFetch(1)
  \/ SweepMarkSyncing(1)
  \/ SweepSave(1)
  \/ SweepMarkForSync(1)
  \/ SweepMarkSynced(1)
  \/ SweepMarkFailed(1)

FetchSpec == Init /\ [][FetchNext]_vars

\* The screens start and stop the foreground position watch.
ForegroundNext ==
  \/ FgStartTracking
  \/ FgStartPermission
  \/ \E w \in 1..MaxWatches : FgWatchPosition(w)
  \/ FgStopTracking

ForegroundSpec == Init /\ [][ForegroundNext]_vars

\* Pruning old messages while text and SOS messages arrive from peers.
PruneNext ==
  \/ Initialize(FALSE)
  \/ \E m \in IncomingMessages \cup EmergencyMessages : HandleBridgefyMessage(m)
  \/ ReceiveCloud
  \/ \E cutoff \in Times : DeleteOldMessages(cutoff)
  \/ PruneCount
  \/ PruneContents
  \/ PruneMessages

PruneSpec == Init /\ [][PruneNext]_vars

\* The location tracking service alone: initialization, activity events, the
\* user's mode selections, starting and stopping; cleanup is not called.
TrackNext ==
  \/ \E mode \in TrackingModes \cup {"none"} : TrackInitialize(mode)
  \/ InitPermissions
  \/ InitReady
  \/ InitFetch
  \/ \E event \in ActivityEvents : OnActivityChange(event)
  \/ \E mode \in TrackingModes : SetTrackingMode(mode)
  \/ \E mode \in TrackingModes \cup {"none"} : StartTracking(mode)
  \/ StartAfterInit
  \/ SetConfigDone
  \/ StartDone
  \/ StopTracking
  \/ StopDone

TrackSpec == Init /\ [][TrackNext]_vars

\* The life cycle of the location tracking service: initialization, the
\* user's mode selections (power-saving by setTrackingMode, high-accuracy or
\* none by startTracking), starting, stopping and cleanup; no activity event
\* arrives.
LifecycleNext ==
  \/ TrackInitialize("none")
  \/ InitPermissions
  \/ InitReady
  \/ InitFetch
  \/ SetTrackingMode("power-saving")
  \/ \E mode \in {"none", "high-accuracy"} : StartTracking(mode)
  \/ StartAfterInit
  \/ SetConfigDone
  \/ StartDone
  \/ StopTracking
  \/ TrackCleanup
  \/ StopDone

LifecycleSpec == Init /\ [][LifecycleNext]_vars

\* The app is killed while a sweep is in flight: Firebase is configured, the
\* stored session signs the user in again after each start, text messages
\* are sent while online, one invocation of the sweep at a time.
CrashNext ==
  \/ Initialize(TRUE)
  \/ AuthStateChanged(TRUE)
  \/ FirebaseSyncTimer({1})
  \/ SweepFetch(1)
  \/ SweepMarkSyncing(1)
  \/ SweepSave(1)
  \/ SweepMarkForSync(1)
  \/ SweepMarkSynced(1)
  \/ SweepMarkFailed(1)
  \/ \E p \in Peers, c \in TextContents, t \in Times : SendTextMessage(p, c, t)
  \/ SendCloud
  \/ SendPeer
  \/ Crash

\* The app starts again after it is killed, the session is restored, the
\* 30 s timer keeps firing and every awaited call of the sweep returns or
\* throws; nothing is assumed about crashes or sends.
CrashFairness ==
  /\ WF_vars(Initialize(TRUE))
  /\ WF_vars(AuthStateChanged(TRUE))
  /\ WF_vars(FirebaseSyncTimer({1}))
  /\ WF_vars(SweepFetch(1))
  /\ WF_vars(SweepMarkSyncing(1))
  /\ WF_vars(SweepSave(1))
  /\ WF_vars(SweepMarkForSync(1))
  /\ WF_vars(SweepMarkSynced(1))
  /\ WF_vars(SweepMarkFailed(1))

CrashSpec == Init /\ [][CrashNext]_vars /\ CrashFairness

\* ================================================================= claims
\* Steps of the handlers, as the claims name them.

\* Invocation s of the sweep calls the cloud saveMessage in this step.
SweepCalledCloud(s) ==
  sweep[s].pc = "save" /\ sweep'[s].pc \in {"markForSync", "markFailed"}

\* A send handler tries its Firebase leg in this step.
SenderTriedCloud == sender.pc = "cloud" /\ sender'.pc = "peer" /\ CloudLegTried

\* A send handler tries its Bridgefy leg in this step.
SenderTriedPeer == sender.pc = "peer" /\ sender'.pc = "idle" /\ initialized' /\ PeerLegTried

\* _handleBridgefyMessage tries its Firebase save in this step.
ReceiverTriedCloud ==
  receiver.pc = "cloud" /\ receiver'.pc = "idle" /\ initialized' /\ isOnline /\ signedIn

\* The cloud saveMessage is called for message id in this step.
CloudSaveCalledFor(id) ==
  \/ \E s \in SweepIds : SweepCalledCloud(s) /\ Current(s).id = id
  \/ SenderTriedCloud /\ sender.op # "sosBroadcast" /\ sender.id = id
  \/ ReceiverTriedCloud /\ receiver.msg.messageId = id

\* C1: an invocation of the sweep made while an earlier one is suspended in
\* its loop calls the cloud saveMessage for no message and changes no sync
\* status (no row of the store).
C1_LateSweepIsNoOp ==
  [][\A s \in SweepIds :
       sweep[s].late =>
         /\ ~SweepCalledCloud(s)
         /\ (sweep'[s] # sweep[s] => store' = store)]_vars

\* C2: a text message sent by sendTextMessage while the device is offline is
\* stored as pending and eligible for sync (getMessagesNeedingSync returns
\* it), so that the next sweep takes it.
C2_OfflineTextEligibleForSync ==
  [][(sender.pc = "idle" /\ sender'.op = "text" /\ ~isOnline)
       => sender'.id \in NeedingSyncIds(store')]_vars

\* C3: the cloud saveMessage is not called for a message identifier that a
\* cloud saveMessage call has already succeeded for, be it by the direct
\* path of a send or receive handler or by a sweep.
C3_CloudSaveAtMostOncePerId ==
  [][\A id \in MsgIds : CloudSaveCalledFor(id) => id \notin cloudSaved]_vars

\* C4: the sync status of a stored message takes no value but pending,
\* syncing and synced, and changes only along pending -> syncing,
\* syncing -> synced and syncing -> pending.
SpecStatuses == {"pending", "syncing", "synced"}
SpecEdges == {<<"pending", "syncing">>, <<"syncing", "synced">>, <<"syncing", "pending">>}
C4_StatusEdges ==
  [][\A id \in MsgIds :
       (store'[id] # NoMsg) =>
         /\ store'[id].sync_status \in SpecStatuses
         /\ (store[id] # NoMsg /\ store'[id].sync_status # store[id].sync_status)
              => <<store[id].sync_status, store'[id].sync_status>> \in SpecEdges]_vars

\* C5: once the sync status of a message has been synced, no sweep calls the
\* cloud saveMessage for its identifier.
C5_NoCloudSaveAfterSynced ==
  [][\A s \in SweepIds : SweepCalledCloud(s) => Current(s).id \notin everSynced]_vars

\* C6: when the cloud save of a message fails during a sweep, the sweep
\* leaves the message pending and returned by getMessagesNeedingSync.
C6_FailedSaveReturnsToPending ==
  [][\A s \in SweepIds :
       (sweep[s].pc = "markFailed" /\ sweep'[s].pc # "markFailed")
         => Current(s).id \in NeedingSyncIds(store')]_vars

\* C7: when the app is killed only finitely often, a message whose sync
\* status is syncing does not stay syncing forever: a later sweep takes it
\* out of that status.
Syncing(id) == store[id] # NoMsg /\ store[id].sync_status = "syncing"
C7_NoMessageStaysSyncing ==
  (<>[][~Crash]_vars) => \A id \in MsgIds : Syncing(id) ~> ~Syncing(id)

\* C8: when a send handler tries a transport (cloud save, peer send or
\* broadcast) for an outgoing message, SOS included, the message has a row
\* in the local store (saveMessage writes every row as pending).
C8_PersistedBeforeTransport ==
  [][(SenderTriedCloud \/ SenderTriedPeer)
       => (sender.id # NoId /\ store[sender.id] # NoMsg)]_vars

\* C9: the rows a sweep still has to save are ordered by emergency flag
\* descending, then timestamp ascending.
PriorityOrdered(q) ==
  \A i, j \in DOMAIN q :
    i < j => \/ q[i].is_emergency /\ ~q[j].is_emergency
             \/ q[i].is_emergency = q[j].is_emergency /\ q[i].timestamp <= q[j].timestamp
C9_EmergencyFirst == \A s \in SweepIds : PriorityOrdered(sweep[s].queue)

\* C10: persisting a message under an identifier that already has a row of
\* another timestamp leaves the row with the content of the message of the
\* later timestamp.
C10_LaterTimestampWins ==
  [][(receiver.pc = "idle" /\ receiver'.pc = "cloud")
       => LET m == receiver'.msg
              old == store[m.messageId]
              new == store'[m.messageId]
          IN  /\ new # NoMsg
              /\ (old # NoMsg /\ old.timestamp > m.timestamp) => new.content = old.content
              /\ (old # NoMsg /\ old.timestamp < m.timestamp)
                   => new.content = ContentStr(m.content)]_vars

\* C11: the list getMessages returns has no two entries for the same message
\* identifier and is sorted by ascending timestamp.
NoDuplicateIds(list) ==
  \A i, j \in DOMAIN list : i # j => EntryId(list[i]) # EntryId(list[j])
SortedByTimestamp(list) ==
  \A i, j \in DOMAIN list : i < j => list[i].timestamp <= list[j].timestamp
RowHasContent(id) ==
  (store[id] # NoMsg /\ HasContentTable(store[id].type)) => store[id].content_row
C12_RowAndContentAtomic == \A id \in MsgIds : RowHasContent(id)

\* C13: in sendTextMessage and sendLocationMessage a failure of the local
\* save ends the call by a throw before any transport is tried; once the
\* message is stored no step makes the call throw, the call returns a
\* boolean, and the message is still stored and, when no transport took it
\* (the call returns false), still marked for the sync that retries it.
C13_SendFailureSemantics ==
  [][/\ (sender.pc = "idle" /\ sender'.result = "threw" /\ sender' # sender)
          => sender'.pc = "idle"
     /\ (sender.pc \in {"cloud", "peer"} /\ sender.op \in {"text", "location"})
          => sender'.result # "threw"
     /\ (sender.pc = "peer" /\ sender'.pc = "idle" /\ sender.op \in {"text", "location"})
          => /\ sender'.result \in {"true", "false"}
             /\ store'[sender.id] # NoMsg
             /\ sender'.result = "false"
                  => (store'[sender.id].needs_sync \/ sender.id \in cloudSaved)]_vars

\* C14: when the SOS countdown was stopped before it reached zero (Cancel,
\* stopSosCountdown, cleanup) and no countdown was started since, no send
\* started by the countdown is in flight: nothing is broadcast, saved to the
\* cloud or updated for that countdown.
C14_CancelledCountdownSendsNothing ==
  sos.cancelled => ~(sos.isSending /\ sos.via = "countdown")
C14_Witness ==
  sos.cancelled /\ ~sos.interval /\ sos.countdown > 0 /\ ~sos.isSending

\* C15: the alert that ends sendSOS says the signal reached the cloud only
\* when a cloud write of that send succeeded, and reports peers only when the
\* broadcast succeeded and no cloud write did.
SosEnds == sos.isSending /\ ~sos'.isSending
C15_ResultNamesLegs ==
  [][SosEnds =>
       /\ sos'.outcome = "sentCloud" => sos'.cloudSent
       /\ (sos'.bridgefySent /\ ~sos'.cloudSent /\ sos.pc # "location"
             /\ sos.pc # "msgLocation") => sos'.outcome = "sentPeers"]_vars

\* C16: a sendSOS that has started sending ends, and the step that ends it
\* shows an alert (sent, failed or error).
SosOutcomes == {"sentCloud", "sentPeers", "failed", "error"}
C17_LegsIndependent ==
  [][/\ (sos.pc = "msgCloud" /\ sos'.pc # sos.pc) => sos'.pc = "msgPeer"
     /\ (sos.pc \in {"msgPeer", "cloud"} /\ SosEnds)
          => (sos'.peerTried /\ (signedIn => sos'.cloudTried))]_vars
C17_Witness ==
  /\ ~sos.isSending /\ sos.peerTried /\ sos.cloudTried
  /\ ~sos.cloudSent /\ ~sos.bridgefySent /\ sos.outcome = "failed"

\* The step handles an activity event / an explicit selection of a mode.
HandledCall(ops) == track'.last.n # track.last.n /\ track'.last.op \in ops
HandledActivity == HandledCall({"activity"})
HandledSelection ==
  HandledCall({"setTrackingMode", "startTracking"}) /\ track'.last.arg # "none"

\* C18: an activity event with confidence below the threshold changes neither
\* the tracking mode nor the provider configuration (applied or requested)
\* nor the backup timer, whatever the activity and the current mode.
C18_LowConfidenceIgnored ==
  [][(HandledActivity /\ track'.last.confidence < ActivityThreshold)
       => /\ track'.trackingMode = track.trackingMode
          /\ track'.config = track.config
          /\ track'.pending = track.pending
          /\ track'.timerMode = track.timerMode]_vars
C18_Witness ==
  /\ track.last.op = "activity" /\ track.last.confidence < ActivityThreshold
  /\ track.last.arg = "running" /\ track.isInitialized
  /\ track.trackingMode = "power-saving"

\* The mapping of section 4.3: stationary -> power-saving, walking / on foot
\* -> standard, running / cycling -> high-accuracy.
SpecMode ==
  [a \in {"still", "walking", "on_foot", "running", "on_bicycle"} |->
     IF a = "still" THEN "power-saving"
     ELSE IF a \in {"walking", "on_foot"} THEN "standard" ELSE "high-accuracy"]
ConfidentMapped ==
  /\ HandledActivity
  /\ track'.last.confidence >= ActivityThreshold
  /\ track'.last.arg \in DOMAIN SpecMode

C20_Original ==
  [][HandledSelection => track'.trackingMode = track'.last.arg]_vars

\* C20: once the service is initialized, setTrackingMode(m) and
\* startTracking(m) make m the mode in the step of the call, whatever the
\* previous mode and whatever setConfig calls are still unanswered.
C20_SelectionSetsMode ==
  [][(HandledSelection /\ track.isInitialized)
       => track'.trackingMode = track'.last.arg]_vars
C20_Witness ==
  /\ track.last.op = "setTrackingMode" /\ track.trackingMode = track.last.arg
  /\ Len(track.pending) = MaxPending
  /\ track.pending[1].mode # track.last.arg
  /\ track.pending[MaxPending].mode = track.last.arg

\* C21: when stopTracking or cleanup has returned, the service is not
\* tracking any more and no backup timer is left.
C21_StopCancelsEverything ==
  [][HandledCall({"stopTracking", "cleanup"})
       => (~track'.isTracking /\ track'.timerMode = "none")]_vars

\* C29: while tracking is active and no call of the service is in flight,
\* there is a backup timer and its interval is the one of the current mode.
C29_TimerFollowsMode ==
  (/\ track.isTracking /\ track.pending = <<>> /\ track.start.pc = "idle"
   /\ ~track.stopping /\ track.init.pc = "idle")
    => track.timerMode = track.trackingMode

\* C22: the step of firebaseService.cleanup leaves no cloud listener
\* subscribed and no sweep or network-check interval running, and there are
\* never two sweep intervals of _setupNetworkObserver.
FirebaseCleanupStep == fbInitialized /\ ~fbInitialized' /\ initialized'
C22_StopClearsListenersAndTimers ==
  /\ [][FirebaseCleanupStep =>
          /\ ~coord'.authSubscribed /\ coord'.listeners = {}
          /\ coord'.fbTimers = 0 /\ coord'.netTimers = 0 /\ coord'.msgTimers = 0]_vars
  /\ [](coord.fbTimers <= 1)

\* C23: no step of deleteOldMessages touches a message whose emergency flag
\* is set, and a deleteOldMessages whose statements all succeeded leaves no
\* non-emergency message older than its cutoff and no content row of a
\* message it removed.
PruneStep == db.pc # "idle" /\ db' # db
PruneDone ==
  /\ PruneStep /\ db'.pc = "idle" /\ db'.last.result = "done"
C23_PruneSparesEmergency ==
  [][/\ PruneStep => \A id \in MsgIds :
                       (store[id] # NoMsg /\ store[id].is_emergency)
                         => store'[id] = store[id]
     /\ PruneDone => (PruneMatches(store', db.cutoff) = {} /\ db'.orphaned = {})]_vars

\* C24: a getCurrentLocation call throws to its caller only when the
\* foreground location service was asked and failed as well, and a call in
\* which both fail does throw.
GetReturns == loc.get.pc # "idle" /\ loc'.get.pc = "idle"
C24_FallbackBeforeError ==
  [][GetReturns =>
       /\ loc'.get.result = "threw" => loc'.get.fgFailed
       /\ loc'.get.fgFailed => loc'.get.result = "threw"]_vars

\* C25: the cloud saveMessage is called, by a send handler or by a sweep,
\* only while the user is signed in and the network status is online, and
\* while the network status is offline no step of a sweep calls it or changes
\* a row of the store.
C25_CloudSaveOnlyOnline ==
  [][/\ \A id \in MsgIds : CloudSaveCalledFor(id) => (signedIn /\ isOnline)
     /\ (~isOnline /\ sweep' # sweep)
          => (store' = store /\ \A s \in SweepIds : ~SweepCalledCloud(s))]_vars

\* C26: for the configured locationUpdateInterval and minDisplacement, the
\* update interval, the distance filter and the backup interval of
\* high-accuracy are no larger than those of standard, and those of standard
\* no larger than those of power-saving.
ModeOrdered(f) ==
  f["high-accuracy"] <= f["standard"] /\ f["standard"] <= f["power-saving"]
C26_ModesOrdered ==
  LET cfg(m) == ConfigForMode(m, loc.locationUpdateInterval, loc.minDisplacement)
      interval == [m \in TrackingModes |-> cfg(m).locationUpdateInterval]
      distance == [m \in TrackingModes |-> cfg(m).distanceFilter]
      backup == [m \in TrackingModes |->
                   BackupInterval(m, loc.locationUpdateInterval)]
  IN ModeOrdered(interval) /\ ModeOrdered(distance) /\ ModeOrdered(backup)

\* C27: markMessageDelivered, updateMessageSyncStatus and markMessageForSync
\* change no row but the one of their identifier; with an identifier the
\* store does not hold they change nothing and, like with one it holds,
\* return true unless the statement itself fails.
TargetedOps == {"markMessageDelivered", "updateMessageSyncStatus", "markMessageForSync"}
TargetedReturns == db'.last.n # db.last.n /\ db'.last.op \in TargetedOps
C27_TargetedUpdates ==
  [][TargetedReturns =>
       /\ \A id \in MsgIds \ {db'.last.id} : store'[id] = store[id]
       /\ store[db'.last.id] = NoMsg => store' = store
       /\ db'.last.result = IF db'.sqlError THEN "false" ELSE "true"
       /\ \A id \in MsgIds : (store[id] = NoMsg) = (store'[id] = NoMsg)]_vars
C27_Witness ==
  /\ db.last.op = "markMessageForSync" /\ db.last.result = "true"
  /\ ~db.sqlError
  /\ store[db.last.id] = NoMsg
  /\ \E id \in MsgIds : store[id] # NoMsg /\ store[id].needs_sync

\* C28: a peer that has a row in the peers table keeps a row through every
\* later step (peer lost, rediscovery, connection-state change, transport
\* stop), and the table never holds two rows with one identifier.
SavedPeers(table) == {r.id : r \in table}
C28_PeerRowsStay ==
  [][/\ SavedPeers(peers.table) \subseteq SavedPeers(peers'.table)
     /\ \A r1, r2 \in peers'.table : r1.id = r2.id => r1 = r2]_vars
C28_Witness ==
  /\ ~peers.isStarted
  /\ peers.available["p1"] = "none"
  /\ \E r \in peers.table : r.id = "p1" /\ r.connection_state = CONNECTION_STATE.CONNECTED
  /\ \E r \in peers.table : r.id = "p2" /\ r.firebase_uid = "uid"

\* C30: cloud sync of the location samples is batched by syncInterval: a
\* call of _syncLocationsToCloud that reaches the cloud path starts no sooner
\* than syncInterval after the one before it, also when that one found
\* nothing to upload or is still in flight.
SyncStarted == loc'.sync.started.n # loc.sync.started.n
C30_OneSyncPerInterval ==
  [][SyncStarted =>
       \/ loc.sync.started.at = 0
       \/ loc'.sync.started.at - loc.sync.started.at >= SyncIntervalMinutes]_vars

TrackQuiescent ==
  /\ track.isInitialized
  /\ track.pending = <<>>
  /\ track.init = NoInit /\ track.start = NoStart
  /\ ~track.stopping /\ ~track.cleaning
C32_ConfigFollowsMode ==
  TrackQuiescent => track.config = getConfigForMode(track.trackingMode)

\* C33: a location fetch of an SOS send that fails (in sendSOS or in
\* sendSOSMessage of an initialized messaging service) does not end the send
\* before bridgefyService.sendSOS was called.
SosLocationFetchEnds ==
  /\ initialized
  /\ sos.pc \in {"location", "msgLocation"}
  /\ sos'.pc = "idle"
C33_LocationFailureStillBroadcasts ==
  [][SosLocationFetchEnds => sos'.peerTried]_vars

\* C34: at most one sendSOS is in flight and at most one countdown interval
\* exists, whatever is shaken or pressed during a send or a countdown, and
\* isSending is false whenever no send is in flight.
C34_OneSendOneTimer ==
  /\ sos.sends <= 1 /\ sos.timers <= 1
  /\ sos.isSending = (sos.sends = 1)
  /\ sos.interval = (sos.timers = 1)
  /\ sos.pc = "idle" => ~sos.isSending
C34_Witness ==
  /\ sos.isSending /\ sos.via = "countdown" /\ ~sos.alertOpen
  /\ sos.pc = "msgPeer"

\* C35: each countdown leads to at most one send: a send starts only while
\* the countdown of the alert is still running (it reaches zero, or Send Now
\* is pressed before it does), not from the buttons of an alert whose
\* countdown has expired and sent. Countdowns stopped by cleanup() are left
\* aside.
SosSendStarts == sos.pc = "idle" /\ sos'.pc = "location"
C35_OneSendPerCountdown ==
  [][SosSendStarts => (sos.interval \/ sos.cancelled)]_vars

\* C36: one SOS send creates at most one document in the 'sos' collection.
C36_OneSosDocument ==
  sos.sosDocs <= 1

\* C37: a message of the cloud chat that getMessages stored locally is
\* stored with needs_sync false, is in no result of getMessagesNeedingSync a
\* sweep works on, and is not saved to the cloud by this device.
StoredFromCloud == {id \in MsgIds \ {1} : chat[id] # NoMsg /\ store[id] # NoMsg}
C37_FetchedNeverUploaded ==
  \A id \in StoredFromCloud :
    /\ ~store[id].needs_sync
    /\ id \notin cloudSaved
    /\ \A s \in SweepIds : \A i \in DOMAIN sweep[s].queue : sweep[s].queue[i].id # id
C37_Witness ==
  /\ StoredFromCloud # {}
  /\ 1 \in cloudSaved
  /\ sweep[1].pc = "fetch"

\* C38: LocationService holds at most one position watch, and a stopTracking
\* that clears its watch leaves none.
FgStopped == loc.fg.watchId # 0 /\ loc'.fg.watchId = 0
C38_OneWatch ==
  [][/\ Cardinality(loc'.fg.watches) <= 1
     /\ FgStopped => loc'.fg.watches = {}]_vars

\* C39: every connected peer of the transport is also available, and no
\* peer is connected while the service is stopped.
C39_ConnectedAreAvailable ==
  /\ \A id \in peers.connected : peers.available[id] # "none"
  /\ ~peers.isStarted => peers.connected = {}

====
